---- MODULE Spec2Model ----
(***************************************************************************)
(* Verification model of the Optimizely CMS SDK query core:                *)
(*   - the fragment composer / query builder (graph/createQuery.ts),       *)
(*   - the base-type fragment library (util/baseTypeUtil.ts),              *)
(*   - the response normalizer and the Graph client (graph/index.ts).      *)
(*                                                                         *)
(* GraphQL text is modelled structurally.  A fragment string               *)
(*   "fragment <name> on <on> { <field> <field> ... }"                     *)
(* is the record [name, on, fields]; a field string is the record          *)
(* [owner, prop, kind, spreads]: `kind` names the fixed text shape,        *)
(* `owner` and `prop` the interpolated alias parts and `spreads` the       *)
(* "...X" spreads the text contains, in order.  Two strings of the code    *)
(* are equal exactly when their records are equal, so deduplication by     *)
(* `new Set(...)` is deduplication of records.                             *)
(***************************************************************************)
EXTENDS Integers, Sequences, FiniteSets, TLC

VARIABLES
  registry,         \* contentTypeRegistry: the registered content types (a list)
  allContentTypes,  \* createQuery.ts module variable: cached "all content types"
  call,             \* the composer call made: [op, contentType, suffix, includeBase, damEnabled]
  result,           \* what that call produced: [frags, shell, err, over]
  tree,             \* the response tree handed to the normalizer
  previewParams,    \* the preview parameters: [ctx, preview_token]
  value,            \* the tree after the normalizer functions applied so far
  prev,             \* the tree the last function applied was given
  steps,            \* the normalizer functions applied, in order
  heap,             \* the objects and arrays before and after the last function applied
  method,           \* the GraphClient method called, with its arguments
  pc,               \* where that call stands: "idle", "probe", "content", "done"
  sent,             \* the HTTP requests sent, in order
  received,         \* the outcomes of fetch for those requests, in order
  replies,          \* what `request` returned or threw for them: [threw, error, data]
  metaData,         \* what getContentMetaData returned: [contentTypeName, damEnabled]
  outcome,          \* how the call ended: [kind, value, error]
  filterCalls,      \* the pathFilter calls made: [path, host, env, result]
  history           \* the registrations and query builds of a session, in order

composerVars == <<registry, allContentTypes, call, result>>
normalizerVars == <<tree, previewParams, value, prev, steps, heap>>
clientVars == <<method, pc, sent, received, replies, metaData, outcome>>
filterVars == <<filterCalls>>
sessionVars == <<history>>
vars == <<composerVars, normalizerVars, clientVars, filterVars, sessionVars>>

-----------------------------------------------------------------------------
(* Generic helpers                                                         *)

RECURSIVE UniqueFrom(_, _, _)
UniqueFrom(s, i, acc) ==
  IF i > Len(s) THEN acc
  ELSE UniqueFrom(s, i + 1,
         IF \E j \in 1..Len(acc) : acc[j] = s[i] THEN acc ELSE Append(acc, s[i]))

\* mutant: the list is joined without deduplication
Unique_Keep(s) == s

\* [...new Set(list)]: first occurrences, in order
Unique(s) == UniqueFrom(s, 1, <<>>)

Range(s) == { s[i] : i \in 1..Len(s) }

-----------------------------------------------------------------------------
(* Content-type model (model/contentTypes.ts, model/properties.ts)         *)

\* A property definition; `items` holds the item definition of an array
\* (a list of length one), `contentType` the key of a component property.
Prop(name, type) ==
  [ name |-> name, type |-> type, indexingType |-> "", contentType |-> "",
    allowedTypes |-> <<>>, restrictedTypes |-> <<>>, items |-> <<>> ]

Disabled(p) == [p EXCEPT !.indexingType = "disabled"]
Component(name, key) == [Prop(name, "component") EXCEPT !.contentType = key]
Content(name, allowed, restricted) ==
  [Prop(name, "content") EXCEPT !.allowedTypes = allowed, !.restrictedTypes = restricted]
ArrayOf(name, item) == [Prop(name, "array") EXCEPT !.items = <<item>>]

ContentType(key, baseType, properties, compositionBehaviors) ==
  [ key |-> key, baseType |-> baseType, properties |-> properties,
    compositionBehaviors |-> compositionBehaviors ]

\* The top-level structural base types
MAIN_BASE_TYPES == {"_page", "_experience", "_section", "_component"}

-----------------------------------------------------------------------------
(* Schema registry (model/contentTypeRegistry.ts)                          *)

getAllContentTypes(reg) == reg

\* undefined is modelled as the empty list, a hit as a list of one
getContentType(reg, key) == SelectSeq(reg, LAMBDA c : c.key = key)

getContentTypeByBaseType(reg, baseType) == SelectSeq(reg, LAMBDA c : c.baseType = baseType)

-----------------------------------------------------------------------------
(* Base-type fragment library (util/baseTypeUtil.ts)                       *)

Field(owner, prop, kind, spreads) ==
  [ owner |-> owner, prop |-> prop, kind |-> kind, spreads |-> spreads ]

Fragment(name, on, fields) == [ name |-> name, on |-> on, fields |-> fields ]

\* a fragment whose body is fixed text containing the given spreads
FixedFragment(name, on, spreads) ==
  Fragment(name, on, <<Field(name, "", "fixed", spreads)>>)

TYPENAME == Field("", "", "__typename", <<>>)

SpreadField(name) == Field("", "", "spread", <<name>>)

getKeyName(t) == t

\* the keys of the model that start with an underscore
UnderscoreKeys ==
  {"_self", "_image", "_video", "_media", "_page", "_experience", "_section",
   "_component", "_folder"}

\* /^_/.test(key)
isBaseType(key) == key \in UnderscoreKeys

\* "_image" -> "_Image"
toBaseTypeFragmentKey(key) ==
  CASE key = "_self" -> "_Self"
    [] key = "_image" -> "_Image"
    [] key = "_video" -> "_Video"
    [] key = "_media" -> "_Media"
    [] key = "_page" -> "_Page"
    [] key = "_experience" -> "_Experience"
    [] key = "_section" -> "_Section"
    [] key = "_component" -> "_Component"
    [] key = "_folder" -> "_Folder"
    [] OTHER -> key

CONTENT_URL_FRAGMENT == FixedFragment("ContentUrl", "ContentUrl", <<>>)

DAM_ASSET_FRAGMENTS ==
  << FixedFragment("PublicImageAsset", "cmp_PublicImageAsset", <<>>),
     FixedFragment("PublicVideoAsset", "cmp_PublicVideoAsset", <<>>),
     FixedFragment("PublicRawFileAsset", "cmp_PublicRawFileAsset", <<>>),
     FixedFragment("ContentReferenceItem", "ContentReference",
                   <<"PublicImageAsset", "PublicVideoAsset", "PublicRawFileAsset">>) >>

COMMON_FRAGMENTS ==
  << FixedFragment("MediaMetadata", "MediaMetadata", <<>>),
     FixedFragment("ItemMetadata", "ItemMetadata", <<>>),
     FixedFragment("InstanceMetadata", "InstanceMetadata", <<>>),
     CONTENT_URL_FRAGMENT,
     FixedFragment("IContentMetadata", "IContentMetadata",
                   <<"ContentUrl", "MediaMetadata", "ItemMetadata", "InstanceMetadata">>),
     FixedFragment("_IContent", "_IContent", <<"IContentMetadata">>) >>

COMMON_FIELDS == SpreadField("_IContent")

buildBaseTypeFragments == [ fields |-> <<COMMON_FIELDS>>, extraFragments |-> COMMON_FRAGMENTS ]

-----------------------------------------------------------------------------
(* Fragment composer (graph/createQuery.ts)                                *)

\* The mutable state one composition threads through its recursion: the
\* shared `visited` set, the module-level cache `allContentTypes`, the key of
\* a thrown GraphMissingContentTypeError ("" while none is thrown) and `over`,
\* set when the nesting of createFragment calls exceeds the depth budget.
ComposeState(visited, cache) ==
  [ visited |-> visited, cache |-> cache, err |-> "", over |-> FALSE ]

\* an exception is unwinding the stack: no further statement runs
Aborted(st) == st.err # "" \/ st.over

getCachedContentTypes(reg, cache) ==
  IF Len(cache) = 0 THEN getAllContentTypes(reg) ELSE cache

refreshCache(reg) == getAllContentTypes(reg)

RECURSIVE AllDisabledFrom(_, _)
AllDisabledFrom(properties, i) ==
  IF i > Len(properties) THEN TRUE
  ELSE IF properties[i].indexingType # "disabled" THEN FALSE
  ELSE AllDisabledFrom(properties, i + 1)

\* TRUE iff ct has at least one property and all of them are disabled
allPropertiesAreDisabled(ct) ==
  Len(ct.properties) > 0 /\ AllDisabledFrom(ct.properties, 1)

\* resolveAllowedTypes, lines 395-401: the skip set built from the restrict list
restrictedSkip(reg, restricted) ==
  UNION { {getKeyName(restricted[i])} \cup
          ( IF isBaseType(getKeyName(restricted[i]))
              THEN { c.key : c \in Range(getContentTypeByBaseType(reg, getKeyName(restricted[i]))) }
              ELSE {} ) : i \in 1..Len(restricted) }

\* resolveAllowedTypes, lines 403-414: the local function `add`.  An entry is
\* a key with the content-type object the code tests (a list of at most one):
\* the entry itself when it is an object, the registry's answer for a string.
\* acc is the list of keys built so far (`result`, whose keys are `seen`).
add(skip, acc, key, ctObj) ==
  IF Len(ctObj) > 0 /\ allPropertiesAreDisabled(ctObj[1]) THEN acc
  ELSE IF key \in skip \/ key \in Range(acc) \/ key \in MAIN_BASE_TYPES THEN acc
  ELSE Append(acc, key)

\* nothing is injected before a base type
addAll_None(skip, acc, cts, i) == acc

\* getContentTypeByBaseType(key).forEach(add)
RECURSIVE addAll(_, _, _, _)
addAll(skip, acc, cts, i) ==
  IF i > Len(cts) THEN acc
  ELSE addAll(skip, add(skip, acc, cts[i].key, <<cts[i]>>), cts, i + 1)

\* resolveAllowedTypes, lines 416-425: the loop over the baseline; the
\* baseline is the explicit allow list (keys) or the cached list (objects)
RECURSIVE baselineLoop(_, _, _, _, _, _)
baselineLoop(reg, skip, allowed, cached, i, acc) ==
  LET explicit == Len(allowed) > 0
      n == IF explicit THEN Len(allowed) ELSE Len(cached)
  IN IF i > n THEN acc
     ELSE LET key == IF explicit THEN getKeyName(allowed[i]) ELSE cached[i].key
              ctObj == IF explicit THEN getContentType(reg, key) ELSE <<cached[i]>>
              injected ==
                IF explicit /\ isBaseType(key)
                  THEN addAll(skip, acc, getContentTypeByBaseType(reg, key), 1)
                  ELSE acc
          IN baselineLoop(reg, skip, allowed, cached, i + 1, add(skip, injected, key, ctObj))

\* the keys of the allowed types, in order; `cache` is the cached list read
resolveAllowedTypes(reg, cache, allowed, restricted) ==
  baselineLoop(reg, restrictedSkip(reg, restricted), allowed,
               getCachedContentTypes(reg, cache), 1, <<>>)

\* mutant: the guard never fires
isVisited_Never(st, fragmentName) == FALSE

\* line 240: the cyclic reference guard
isVisited(st, fragmentName) == fragmentName \in st.visited

\* mutant: disabled properties are not skipped
isDisabled_Never(prop) == FALSE

\* line 264: a property with indexingType "disabled" is skipped
isDisabled(prop) == prop.indexingType = "disabled"

\* mutant: the spread is added whatever the flag
itemFragment_Always(damEnabled) == <<"ContentReferenceItem">>

\* line 161: the spread added to a contentReference selection
itemFragment(damEnabled) == IF damEnabled THEN <<"ContentReferenceItem">> ELSE <<>>

\* mutant: the flag is never raised
usesDamAssets_Never(damEnabled) == FALSE

\* line 164: a contentReference asks for the DAM fragments when DAM is enabled
usesDamAssets(damEnabled) == damEnabled

\* mutant: the DAM fragments are added whenever DAM is enabled
addsDamFragments_IfEnabled(includesDamAssetsFragments, damEnabled) == damEnabled

\* line 302: the DAM fragments are added when a property asked for them
addsDamFragments(includesDamAssetsFragments, damEnabled) == includesDamAssetsFragments

RECURSIVE createFragment(_, _, _, _, _, _, _)
RECURSIVE convertPropertyField(_, _, _, _, _, _, _, _)

\* checkTypeConstraintIssues only logs a warning
convertProperty(reg, name, property, rootName, suffix, st, damEnabled, fuel) ==
  convertPropertyField(reg, name, property, rootName, suffix, st, damEnabled, fuel)

\* lines 181-185: what convertPropertyField returns
propertyResult(fields, extraFragments, includesDamAssetsFragments, st) ==
  [ fields |-> fields, extraFragments |-> Unique(extraFragments),
    includesDamAssetsFragments |-> includesDamAssetsFragments, st |-> st ]

\* lines 143-146: r is what createFragment returned for the allowed type `key`
allowedStep(acc, key, r) ==
  [ extraFragments |-> acc.extraFragments \o r.frags,
    subfields |-> Append(acc.subfields, key),
    st |-> r.st ]

\* line 140: '_self' stands for the type that owns the property
selfKey(key, rootName) == IF key = "_self" THEN rootName ELSE key

\* convertPropertyField, lines 137-147: one fragment and one spread per allowed type
RECURSIVE allowedLoop(_, _, _, _, _, _, _)
allowedLoop(reg, allowed, i, rootName, acc, damEnabled, fuel) ==
  IF i > Len(allowed) \/ Aborted(acc.st) THEN acc
  ELSE allowedLoop(reg, allowed, i + 1, rootName,
                   allowedStep(acc, selfKey(getKeyName(allowed[i]), rootName),
                               createFragment(reg, selfKey(getKeyName(allowed[i]), rootName),
                                              acc.st, "", TRUE, damEnabled, fuel)),
                   damEnabled, fuel)

\* lines 125-130: r is what createFragment returned for the component type
componentField(owner, name, key, r) ==
  propertyResult(<<Field(owner, name, "component", <<key \o "Property">>)>>,
                 r.frags, FALSE, r.st)

\* the spreads joined as collected
contentField_Repeated(owner, name, r) ==
  propertyResult(<<Field(owner, name, "content", r.subfields)>>,
                 r.extraFragments, FALSE, r.st)

\* lines 149-150: r is the outcome of the loop over the allowed types
contentField(owner, name, r) ==
  propertyResult(<<Field(owner, name, "content", Unique(r.subfields))>>,
                 r.extraFragments, FALSE, r.st)

\* lines 174-176: f is what convertProperty returned for the items
arrayField(f) ==
  propertyResult(f.fields, f.extraFragments, f.includesDamAssetsFragments, f.st)

\* the alias prefix without the suffix of the fragment
aliasPrefix_Root(rootName, suffix) == rootName

\* line 122: the prefix of nameInFragment, rootName + suffix
aliasPrefix(rootName, suffix) == rootName \o suffix

convertPropertyField(reg, name, property, rootName, suffix, st, damEnabled, fuel) ==
  CASE property.type = "component" ->
         componentField(aliasPrefix(rootName, suffix), name, property.contentType,
                        createFragment(reg, property.contentType, st, "Property", FALSE,
                                       damEnabled, fuel))
    [] property.type = "content" ->
         contentField(aliasPrefix(rootName, suffix), name,
                      allowedLoop(reg,
                                  resolveAllowedTypes(reg, st.cache, property.allowedTypes,
                                                      property.restrictedTypes),
                                  1, rootName,
                                  [ extraFragments |-> <<>>, subfields |-> <<>>,
                                    st |-> [st EXCEPT !.cache = getCachedContentTypes(reg, @)] ],
                                  damEnabled, fuel))
    [] property.type = "richText" ->
         propertyResult(<<Field(aliasPrefix(rootName, suffix), name, "richText", <<>>)>>, <<>>, FALSE, st)
    [] property.type = "url" ->
         propertyResult(<<Field(aliasPrefix(rootName, suffix), name, "url", <<"ContentUrl">>)>>,
                        <<CONTENT_URL_FRAGMENT>>, FALSE, st)
    [] property.type = "link" ->
         propertyResult(<<Field(aliasPrefix(rootName, suffix), name, "link", <<"ContentUrl">>)>>,
                        <<CONTENT_URL_FRAGMENT>>, FALSE, st)
    [] property.type = "contentReference" ->
         propertyResult(<<Field("", name, "contentReference",
                                <<"ContentUrl">> \o itemFragment(damEnabled))>>,
                        <<CONTENT_URL_FRAGMENT>>, usesDamAssets(damEnabled), st)
    [] property.type = "array" ->
         arrayField(convertProperty(reg, name, property.items[1], rootName, suffix, st,
                                    damEnabled, fuel))
    [] OTHER ->
         propertyResult(<<Field(aliasPrefix(rootName, suffix), name, "scalar", <<>>)>>, <<>>, FALSE, st)

\* the fragments of an element type left out
experienceStep_Dropped(acc, r) == [ frags |-> acc.frags, st |-> r.st ]

\* line 218: r is what createFragment returned for an element type
experienceStep(acc, r) == [ frags |-> acc.frags \o r.frags, st |-> r.st ]

\* createExperienceFragments, lines 216-218: the fragments of the element types
RECURSIVE experienceLoop(_, _, _, _, _, _)
experienceLoop(reg, nodes, i, acc, damEnabled, fuel) ==
  IF i > Len(nodes) \/ Aborted(acc.st) THEN acc
  ELSE experienceLoop(reg, nodes, i + 1,
                      experienceStep(acc, createFragment(reg, nodes[i], acc.st, "", TRUE,
                                                         damEnabled, fuel)),
                      damEnabled, fuel)

\* lines 203-213: the keys of the composition element types
experienceNodes(cached) ==
  LET elements == SelectSeq(cached, LAMBDA c :
                    c.baseType = "_component" /\ Len(c.compositionBehaviors) > 0)
  IN [i \in 1..Len(elements) |-> elements[i].key]

\* lines 198-201 and 220-223: extra is the outcome of the loop over the element types
experienceResult(nodes, extra) ==
  [ frags |-> << FixedFragment("_IExperience", "_IExperience", <<"ICompositionNode">>),
                 FixedFragment("ICompositionNode", "ICompositionNode", <<"_IComponent">>) >>
              \o extra.frags
              \o << Fragment("_IComponent", "_IComponent",
                             <<TYPENAME>> \o [i \in 1..Len(nodes) |-> SpreadField(nodes[i])]) >>,
    st |-> extra.st ]

createExperienceFragments(reg, st, damEnabled, fuel) ==
  experienceResult(
    experienceNodes(getCachedContentTypes(reg, st.cache)),
    experienceLoop(reg,
                   SelectSeq(experienceNodes(getCachedContentTypes(reg, st.cache)),
                             LAMBDA n : n \notin st.visited),
                   1,
                   [ frags |-> <<>>,
                     st |-> [st EXCEPT !.cache = getCachedContentTypes(reg, @)] ],
                   damEnabled, fuel))

\* lines 279-281: r is what convertProperty returned
propertyStep(acc, r) ==
  [ fields |-> acc.fields \o r.fields,
    extraFragments |-> acc.extraFragments \o r.extraFragments,
    includesDamAssetsFragments |->
      acc.includesDamAssetsFragments \/ r.includesDamAssetsFragments,
    st |-> r.st ]

\* createFragment, lines 262-282: the loop over the properties of the type
RECURSIVE propertyLoop(_, _, _, _, _, _, _, _)
propertyLoop(reg, properties, i, contentTypeName, suffix, acc, damEnabled, fuel) ==
  IF i > Len(properties) \/ Aborted(acc.st) THEN acc
  ELSE propertyLoop(reg, properties, i + 1, contentTypeName, suffix,
                    IF isDisabled(properties[i]) THEN acc
                    ELSE propertyStep(acc,
                           convertProperty(reg, properties[i].name, properties[i],
                                           contentTypeName, suffix, acc.st, damEnabled, fuel)),
                    damEnabled, fuel)

\* lines 245-247: the accumulators of a createFragment call
fragmentStart(st) ==
  [ fields |-> <<TYPENAME>>, extraFragments |-> <<>>,
    includesDamAssetsFragments |-> FALSE, st |-> st ]

\* lines 250-253: a built-in CMS base type
baseTypeBody(acc) ==
  [acc EXCEPT !.fields = @ \o buildBaseTypeFragments.fields,
              !.extraFragments = @ \o buildBaseTypeFragments.extraFragments]

\* the fields of the base type without its fragments
withBaseFragments_FieldsOnly(includeBaseFragments, acc) ==
  IF includeBaseFragments
    THEN [acc EXCEPT !.fields = @ \o buildBaseTypeFragments.fields]
    ELSE acc

\* lines 285-289: the fragments of the base type are put first
withBaseFragments(includeBaseFragments, acc) ==
  IF includeBaseFragments
    THEN [acc EXCEPT !.extraFragments = buildBaseTypeFragments.extraFragments \o @,
                     !.fields = @ \o buildBaseTypeFragments.fields]
    ELSE acc

\* lines 292-293: exp is what createExperienceFragments returned
experienceMerge(acc, exp) ==
  [acc EXCEPT !.fields = Append(@, SpreadField("_IExperience")),
              !.extraFragments = @ \o exp.frags,
              !.st = exp.st]

\* lines 291-294
withExperience(reg, ct, acc, damEnabled, fuel) ==
  IF ct.baseType = "_experience"
    THEN experienceMerge(acc, createExperienceFragments(reg, acc.st, damEnabled, fuel))
    ELSE acc

\* lines 284-294: props is the outcome of the loop over the properties
afterProperties(reg, ct, includeBaseFragments, props, damEnabled, fuel) ==
  IF Aborted(props.st) THEN props
  ELSE withExperience(reg, ct, withBaseFragments(includeBaseFragments, props),
                      damEnabled, fuel)

\* the lookup failure passed over
missingContentType_Ignored(st, contentTypeName) == st

\* lines 257-259: throw new GraphMissingContentTypeError(contentTypeName)
missingContentType(st, contentTypeName) == [st EXCEPT !.err = contentTypeName]

\* lines 256-294: a user-defined content type; ct is the registry's answer
userTypeBody(reg, ct, contentTypeName, suffix, includeBaseFragments, st, damEnabled, fuel) ==
  IF Len(ct) = 0
    THEN fragmentStart(missingContentType(st, contentTypeName))
    ELSE afterProperties(reg, ct[1], includeBaseFragments,
                         propertyLoop(reg, ct[1].properties, 1, contentTypeName, suffix,
                                      fragmentStart(st), damEnabled, fuel),
                         damEnabled, fuel)

\* lines 297-311: body holds the accumulators after the branches
fragmentReturn(fragmentName, body, damEnabled) ==
  IF Aborted(body.st) THEN [frags |-> <<>>, st |-> body.st]
  ELSE [ frags |->
           Append(Unique(IF addsDamFragments(body.includesDamAssetsFragments, damEnabled)
                           THEN DAM_ASSET_FRAGMENTS \o body.extraFragments
                           ELSE body.extraFragments),
                  Fragment(fragmentName, toBaseTypeFragmentKey(fragmentName),
                           Unique(body.fields))),
         st |-> body.st ]

\* the refresh condition taken the wrong way round: within a composition
isRootCall_Nested(st) == st.visited # {}

\* line 241: visited.size === 0, the call that starts a composition
isRootCall(st) == st.visited = {}

\* entry that leaves the cache as it is
enter_NoRefresh(reg, st, fragmentName) ==
  [st EXCEPT !.visited = @ \cup {fragmentName}]

\* lines 241-243: st is the state at entry
enter(reg, st, fragmentName) ==
  [st EXCEPT !.cache = IF isRootCall(st) THEN refreshCache(reg) ELSE @,
             !.visited = @ \cup {fragmentName}]

\* Returns [frags, st]; frags is the returned list unless Aborted(st), in which
\* case the call threw.  `fuel` is the nesting depth still allowed.
createFragment(reg, contentTypeName, st, suffix, includeBaseFragments, damEnabled, fuel) ==
  IF Aborted(st) THEN [frags |-> <<>>, st |-> st]
  ELSE IF isVisited(st, contentTypeName \o suffix) THEN [frags |-> <<>>, st |-> st]
  ELSE IF fuel = 0 THEN [frags |-> <<>>, st |-> [st EXCEPT !.over = TRUE]]
  ELSE fragmentReturn(
         contentTypeName \o suffix,
         IF isBaseType(contentTypeName)
           THEN baseTypeBody(fragmentStart(enter(reg, st, contentTypeName \o suffix)))
           ELSE userTypeBody(reg, getContentType(reg, contentTypeName), contentTypeName,
                             suffix, includeBaseFragments,
                             enter(reg, st, contentTypeName \o suffix), damEnabled, fuel - 1),
         damEnabled)

\* The call made by createSingleContentQuery / createMultipleContentQuery and
\* by the tests: a fresh `visited` set.  Returns [frags, st].
composeRoot(reg, cache, contentTypeName, suffix, includeBaseFragments, damEnabled, fuel) ==
  createFragment(reg, contentTypeName, ComposeState({}, cache), suffix,
                 includeBaseFragments, damEnabled, fuel)

\* The query shell around the fragments: `kind` is the selection ("item" or
\* "items"), `typename` whether the shell selects __typename itself, `spreads`
\* the spread of the root fragment.
queryShell(kind, typename, fragment, contentType) ==
  [ kind |-> kind, typename |-> typename,
    spreads |-> IF Len(fragment) > 0 THEN <<contentType>> ELSE <<>> ]

NoShell == [ kind |-> "none", typename |-> FALSE, spreads |-> <<>> ]

createSingleContentQuery(r, contentType) == queryShell("item", TRUE, r.frags, contentType)

createMultipleContentQuery(r, contentType) == queryShell("items", FALSE, r.frags, contentType)

-----------------------------------------------------------------------------
(* The registries explored                                                 *)

\* number of content types of a full registry
NumTypes == 2

TypeKeys == <<"A", "B", "C", "D", "E">>

Keys == { TypeKeys[i] : i \in 1..NumTypes }

\* the content types a key may be registered as; n is the key of the next
\* type of the registry (cyclically), which the definitions may reference
Definitions(k, n) ==
  { ContentType(k, "_page",
      <<Prop("title", "string"), Prop("image", "contentReference")>>, <<>>),
    ContentType(k, "_component",
      <<Disabled(Prop("image", "contentReference")), Prop("link", "url")>>,
      <<"elementEnabled">>),
    ContentType(k, "_page",
      <<Component("block", n), Disabled(Prop("body", "richText"))>>, <<>>),
    ContentType(k, "_page",
      <<Content("content", <<n>>, <<>>), Prop("title", "string")>>, <<>>),
    ContentType(k, "_component",
      <<Content("self", <<"_self", k>>, <<>>),
        ArrayOf("images", Prop("", "contentReference"))>>,
      <<"sectionEnabled">>),
    ContentType(k, "_page", <<Content("any", <<>>, <<n>>)>>, <<>>),
    ContentType(k, "_experience", <<Prop("title", "string")>>, <<>>),
    ContentType(k, "_component", <<Disabled(Prop("hidden", "string"))>>, <<>>),
    ContentType(k, "_image", <<Prop("alt", "string"), Prop("href", "link")>>, <<>>),
    ContentType(k, "_page",
      <<ArrayOf("list", Content("", <<"_image", n>>, <<"_video">>)),
        Disabled(Component("hiddenBlock", n))>>, <<>>),
    ContentType(k, "_experience", <<Content("main", <<>>, <<>>)>>, <<>>),
    ContentType(k, "_component",
      <<Component("inner", n), Prop("image", "contentReference")>>, <<"elementEnabled">>),
    ContentType(k, "_component", <<Component("inner", n)>>, <<"elementEnabled">>),
    ContentType(k, "_image", <<Disabled(Prop("alt", "string"))>>, <<>>),
    ContentType(k, "_page",
      <<Content("self", <<"_self">>, <<k>>), Content("noImages", <<>>, <<"_image">>)>>,
      <<>>) }

NextKey(i) == TypeKeys[(i % NumTypes) + 1]

\* registries of NumTypes types, and of NumTypes - 1 types in which the last
\* type references a key that is not registered
Registries ==
  UNION { { r \in [1..m -> UNION { Definitions(TypeKeys[i], NextKey(i)) : i \in 1..m }] :
              \A i \in 1..m : r[i] \in Definitions(TypeKeys[i], NextKey(i)) }
          : m \in {NumTypes - 1, NumTypes} }

-----------------------------------------------------------------------------
(* The composition graph of a registry, defined independently of the       *)
(* composer: nodes are [key, suffix], an edge leads to every fragment a    *)
(* property (or the experience composition) of the node's type asks for.   *)

Node(key, suffix) == [ key |-> key, suffix |-> suffix ]

RegisteredKeys(reg) == { reg[i].key : i \in 1..Len(reg) }

TypeOf(reg, key) == CHOOSE c \in Range(reg) : c.key = key

\* the properties of a type that count: all of them, or the indexed ones
PropsOf(ct, withDisabled) ==
  { ct.properties[i] : i \in { j \in 1..Len(ct.properties) :
                                 withDisabled \/ ct.properties[j].indexingType # "disabled" } }

RECURSIVE Unwrap(_)
Unwrap(p) == IF p.type = "array" THEN Unwrap(p.items[1]) ELSE p

PropEdges(reg, owner, p, withContent) ==
  LET q == Unwrap(p) IN
  CASE q.type = "component" -> { Node(q.contentType, "Property") }
    [] q.type = "content" /\ withContent ->
         { Node(IF a = "_self" THEN owner ELSE a, "") :
             a \in Range(resolveAllowedTypes(reg, reg, q.allowedTypes, q.restrictedTypes)) }
    [] OTHER -> {}

ElementKeys(reg) ==
  { c.key : c \in { d \in Range(reg) :
                      d.baseType = "_component" /\ Len(d.compositionBehaviors) > 0 } }

\* mode = [disabled, content, experience]: which edges are followed
Edges(reg, n, mode) ==
  IF n.key \notin RegisteredKeys(reg) THEN {}
  ELSE LET ct == TypeOf(reg, n.key) IN
       UNION { PropEdges(reg, n.key, p, mode.content) : p \in PropsOf(ct, mode.disabled) }
       \cup ( IF mode.experience /\ ct.baseType = "_experience"
                THEN { Node(k, "") : k \in ElementKeys(reg) } ELSE {} )

RECURSIVE Closure(_, _, _)
Closure(reg, nodes, mode) ==
  LET more == nodes \cup UNION { Edges(reg, n, mode) : n \in nodes }
  IN IF more = nodes THEN nodes ELSE Closure(reg, more, mode)

Reach(reg, root, mode) == Closure(reg, {root}, mode)

\* what the composer follows: indexed properties, content and experience edges
Composed == [ disabled |-> FALSE, content |-> TRUE, experience |-> TRUE ]

\* the four ways of C4: indexed properties, arrays, components, allowed types
ByProperties == [ disabled |-> FALSE, content |-> TRUE, experience |-> FALSE ]

HasContentReference(reg, n, withDisabled) ==
  /\ n.key \in RegisteredKeys(reg)
  /\ \E p \in PropsOf(TypeOf(reg, n.key), withDisabled) : Unwrap(p).type = "contentReference"

\* every key a registered type refers to is registered (or is a base type)
RECURSIVE ReferencedKeys(_)
ReferencedKeys(p) ==
  LET q == Unwrap(p) IN
  CASE q.type = "component" -> { q.contentType }
    [] q.type = "content" ->
         { k \in Range(q.allowedTypes) \cup Range(q.restrictedTypes) : ~ isBaseType(k) }
    [] OTHER -> {}

AllReferencedRegistered(reg) ==
  \A c \in Range(reg) : \A p \in PropsOf(c, TRUE) : ReferencedKeys(p) \subseteq RegisteredKeys(reg)

-----------------------------------------------------------------------------
(* Response trees (graph/index.ts, the JSON the Graph endpoint returns)    *)
(*                                                                         *)
(* A JSON value is the record [tag, val, keys, items]: tag is "str",       *)
(* "num", "bool" or "null" for a primitive (val its text), "arr" for an    *)
(* array (items its elements) and "obj" for an object (keys[i] the i-th    *)
(* key in insertion order, items[i] its value).  A key is the list of the  *)
(* pieces of its text between "__": "T__a" is <<"T", "a">>, "__typename"   *)
(* is <<"", "typename">>; so a key starts with t + "__", for a type name t *)
(* without "__", exactly when it has two pieces or more and the first is t.*)

Str(s) == [ tag |-> "str", val |-> s, keys |-> <<>>, items |-> <<>> ]
Num(s) == [ tag |-> "num", val |-> s, keys |-> <<>>, items |-> <<>> ]
Bool(b) == [ tag |-> "bool", val |-> IF b THEN "true" ELSE "false", keys |-> <<>>, items |-> <<>> ]
Arr(items) == [ tag |-> "arr", val |-> "", keys |-> <<>>, items |-> items ]
Obj(keys, items) == [ tag |-> "obj", val |-> "", keys |-> keys, items |-> items ]

TypenameKey == <<"", "typename">>
ContextKey == <<"", "context">>

\* k in obj
HasKey(obj, k) == \E i \in 1..Len(obj.keys) : obj.keys[i] = k

\* obj[k], for a key the object has
Get(obj, k) == obj.items[CHOOSE i \in 1..Len(obj.keys) : obj.keys[i] = k]

\* obj[k] = v: an existing key keeps its place, a new key is added last
Assign(obj, k, v) ==
  IF HasKey(obj, k)
    THEN Obj(obj.keys, [i \in 1..Len(obj.keys) |-> IF obj.keys[i] = k THEN v ELSE obj.items[i]])
    ELSE Obj(Append(obj.keys, k), Append(obj.items, v))

\* k.startsWith(prefix), prefix = typename + '__'
startsWith(k, typename) == Len(k) >= 2 /\ k[1] = typename

\* k.slice(prefix.length)
slice(k) == Tail(k)

\* mutant: a __typename of any type gives a prefix
hasTypename_AnyValue(obj) == HasKey(obj, TypenameKey)

\* line 174: the object carries a GraphQL type name
hasTypename(obj) == HasKey(obj, TypenameKey) /\ Get(obj, TypenameKey).tag = "str"

\* mutant: a key loses the prefix of any type
renamedKey_Any(obj, k) == IF Len(k) >= 2 /\ k # TypenameKey THEN slice(k) ELSE k

\* lines 174-190: the key under which the value of k is copied
renamedKey(obj, k) ==
  IF hasTypename(obj) /\ startsWith(k, Get(obj, TypenameKey).val) THEN slice(k) ELSE k

RECURSIVE removeTypePrefix(_)

\* lines 179-190: the loop `for (const k in obj)`; obj2 is the copy so far
RECURSIVE copyLoop(_, _, _)
copyLoop(obj, i, obj2) ==
  IF i > Len(obj.keys) THEN obj2
  ELSE copyLoop(obj, i + 1,
                Assign(obj2, renamedKey(obj, obj.keys[i]), removeTypePrefix(obj.items[i])))

removeTypePrefix(obj) ==
  IF obj.tag = "arr"
    THEN Arr([i \in 1..Len(obj.items) |-> removeTypePrefix(obj.items[i])])
  ELSE IF obj.tag = "obj"
    THEN copyLoop(obj, 1, Obj(<<>>, <<>>))
  ELSE obj

\* lines 209-212: the __context object
contextOf(params) ==
  Obj(<< <<"edit">>, <<"preview_token">> >>,
      << Bool(params.ctx = "edit"), Str(params.preview_token) >>)

\* mutant: every object gets a __context
isDecorated_All(obj) == TRUE

\* line 208: '__typename' in obj
isDecorated(obj) == HasKey(obj, TypenameKey)

\* lines 208-213: obj is the object after its values were decorated
attachContext(obj, params) ==
  IF isDecorated(obj) THEN Assign(obj, ContextKey, contextOf(params)) ELSE obj

\* The value returned; an object is changed in place, so the argument equals
\* the returned value afterwards.
RECURSIVE decorateWithContext(_, _)
decorateWithContext(obj, params) ==
  IF obj.tag = "arr"
    THEN Arr([i \in 1..Len(obj.items) |-> decorateWithContext(obj.items[i], params)])
  ELSE IF obj.tag = "obj"
    THEN attachContext(Obj(obj.keys, [i \in 1..Len(obj.items) |->
                                        decorateWithContext(obj.items[i], params)]),
                       params)
  ELSE obj

-----------------------------------------------------------------------------
(* The response trees explored                                             *)

Null == [ tag |-> "null", val |-> "", keys |-> <<>>, items |-> <<>> ]

NoTree == Null

NoParams == [ ctx |-> "", preview_token |-> "" ]

\* the wrappers put around a tree
MaxWraps == 1

\* the normalizer functions applied to one tree
MaxSteps == 2

Primitives == { Str("T"), Num("1") }

\* plain, aliased with the prefix of T (once, twice) and of U, and reserved keys
LeafKeys == { TypenameKey, <<"a">>, <<"T", "a">>, <<"T", "T", "a">>, <<"U", "a">>, ContextKey }

\* every object of at most two of these keys, in either order
LeafObjects ==
  { Obj(<<>>, <<>>) }
    \cup { Obj(<<k>>, <<v>>) : k \in LeafKeys, v \in Primitives }
    \cup { Obj(<<ks[1], ks[2]>>, <<v1, v2>>) :
             ks \in { x \in LeafKeys \X LeafKeys : x[1] # x[2] },
             v1 \in Primitives, v2 \in Primitives }

\* The trees of the tests and of the specification's examples
ExampleTrees ==
  { Obj(<< TypenameKey, <<"T", "a">>, <<"T", "nested">> >>,
        << Str("T"), Num("1"),
           Obj(<< TypenameKey, <<"U", "b">> >>, << Str("U"), Num("2") >>) >>),
    Obj(<< TypenameKey, <<"child">> >>,
        << Str("T"), Obj(<< TypenameKey >>, << Str("U") >>) >>),
    Obj(<< <<"plain">>, <<"list">> >>,
        << Obj(<< <<"x">> >>, << Num("1") >>),
           Arr(<< Obj(<< TypenameKey >>, << Str("U") >>), Null >>) >>) }

\* the ways a tree t is nested in a larger one
Wrappers(t) ==
  { Arr(<<t>>),
    Arr(<< Null, t >>),
    Obj(<< <<"a">> >>, <<t>>),
    Obj(<< TypenameKey, <<"T", "a">> >>, << Str("T"), t >>),
    Obj(<< <<"T", "a">>, TypenameKey >>, << t, Str("T") >>),
    Obj(<< TypenameKey, <<"T", "a">>, <<"U", "a">> >>, << Str("U"), t, Num("1") >>),
    Obj(<< TypenameKey, <<"a">>, <<"T", "a">> >>, << Str("T"), t, Num("1") >>),
    Obj(<< TypenameKey, <<"T", "a">>, <<"a">> >>, << Str("T"), t, Num("1") >>),
    Obj(<< TypenameKey, <<"T", "T", "a">> >>, << Str("T"), t >>),
    Obj(<< TypenameKey, ContextKey >>, << Str("T"), t >>),
    Obj(<< TypenameKey, <<"T", "a">> >>, << Null, t >>) }

RECURSIVE TreesUpTo(_)
TreesUpTo(n) ==
  IF n = 0 THEN Primitives \cup { Null } \cup LeafObjects \cup ExampleTrees
  ELSE LET inner == TreesUpTo(n - 1) IN inner \cup UNION { Wrappers(t) : t \in inner }

Trees == TreesUpTo(MaxWraps)

Params == [ ctx : {"edit", "view"}, preview_token : {"tok"} ]

-----------------------------------------------------------------------------
(* Objects and arrays as references (graph/index.ts).  The cells of a heap *)
(* are the objects and arrays alive, a cell's address is its index; the    *)
(* items of a cell are primitives or references to other cells.            *)

Ref(a) == [ tag |-> "ref", val |-> "", keys |-> <<>>, items |-> <<a>> ]

IsRef(x) == x.tag = "ref"

Addr(x) == x.items[1]

\* a new object or array
allocate(cells, cell) == [ cells |-> Append(cells, cell), root |-> Ref(Len(cells) + 1) ]

\* the value a reference stands for
RECURSIVE Read(_, _)
Read(cells, x) ==
  IF IsRef(x)
    THEN [ cells[Addr(x)] EXCEPT
             !.items = [i \in 1..Len(cells[Addr(x)].items) |-> Read(cells, cells[Addr(x)].items[i])] ]
    ELSE x

\* the JSON value t parsed into objects and arrays of its own
RECURSIVE parse(_, _)
RECURSIVE parseItems(_, _, _, _)
parseItems(cells, items, i, acc) ==
  IF i > Len(items) THEN [ cells |-> cells, items |-> acc ]
  ELSE parseItems(parse(cells, items[i]).cells, items, i + 1,
                  Append(acc, parse(cells, items[i]).root))

parse(cells, t) ==
  IF t.tag \in {"arr", "obj"}
    THEN allocate(parseItems(cells, t.items, 1, <<>>).cells,
                  [t EXCEPT !.items = parseItems(cells, t.items, 1, <<>>).items])
    ELSE [ cells |-> cells, root |-> t ]

\* obj2 taken to be the argument itself
emptyObject_Same(cells, a) == [ cells |-> cells, root |-> Ref(a) ]

\* line 173: const obj2 = {}
emptyObject(cells, a) == allocate(cells, Obj(<<>>, <<>>))

RECURSIVE removeTypePrefixIn(_, _)

\* line 169: obj.map(...), acc the elements mapped so far
RECURSIVE mapRemove(_, _, _, _)
mapRemove(cells, items, i, acc) ==
  IF i > Len(items) THEN allocate(cells, Arr(acc))
  ELSE mapRemove(removeTypePrefixIn(cells, items[i]).cells, items, i + 1,
                 Append(acc, removeTypePrefixIn(cells, items[i]).root))

\* lines 179-190: obj is the object looped over, a2 the address of obj2
RECURSIVE copyLoopIn(_, _, _, _)
copyLoopIn(cells, obj, i, a2) ==
  IF i > Len(obj.keys) THEN [ cells |-> cells, root |-> Ref(a2) ]
  ELSE copyLoopIn(
         [ removeTypePrefixIn(cells, obj.items[i]).cells EXCEPT
             ![a2] = Assign(@, renamedKey(obj, obj.keys[i]),
                            removeTypePrefixIn(cells, obj.items[i]).root) ],
         obj, i + 1, a2)

\* removeTypePrefix on references: returns the cells afterwards and the value returned
removeTypePrefixIn(cells, x) ==
  IF ~ IsRef(x) THEN [ cells |-> cells, root |-> x ]
  ELSE IF cells[Addr(x)].tag = "arr" THEN mapRemove(cells, cells[Addr(x)].items, 1, <<>>)
  ELSE copyLoopIn(emptyObject(cells, Addr(x)).cells, cells[Addr(x)], 1,
                  Addr(emptyObject(cells, Addr(x)).root))

RECURSIVE decorateWithContextIn(_, _, _)

\* line 203: obj.map(...)
RECURSIVE mapDecorate(_, _, _, _, _)
mapDecorate(cells, items, i, acc, params) ==
  IF i > Len(items) THEN allocate(cells, Arr(acc))
  ELSE mapDecorate(decorateWithContextIn(cells, items[i], params).cells, items, i + 1,
                   Append(acc, decorateWithContextIn(cells, items[i], params).root), params)

\* lines 206-208: obj[k] = decorateWithContext(obj[k], params), for the i-th key on
RECURSIVE decorateLoop(_, _, _, _)
decorateLoop(cells, a, i, params) ==
  IF i > Len(cells[a].keys) THEN cells
  ELSE decorateLoop(
         [ decorateWithContextIn(cells, cells[a].items[i], params).cells EXCEPT
             ![a].items[i] = decorateWithContextIn(cells, cells[a].items[i], params).root ],
         a, i + 1, params)

\* lines 209-214: the object at a, after its values were decorated
attachContextIn(cells, a, params) ==
  IF isDecorated(cells[a])
    THEN [ cells |-> [ allocate(cells, contextOf(params)).cells EXCEPT
                         ![a] = Assign(@, ContextKey, allocate(cells, contextOf(params)).root) ],
           root |-> Ref(a) ]
    ELSE [ cells |-> cells, root |-> Ref(a) ]

\* decorateWithContext on references
decorateWithContextIn(cells, x, params) ==
  IF ~ IsRef(x) THEN [ cells |-> cells, root |-> x ]
  ELSE IF cells[Addr(x)].tag = "arr"
    THEN mapDecorate(cells, cells[Addr(x)].items, 1, <<>>, params)
  ELSE attachContextIn(decorateLoop(cells, Addr(x), 1, params), Addr(x), params)

\* a call: the cells and the argument before it, the cells and the value returned after it
Applied(before, arg, r) ==
  [ before |-> before, arg |-> arg, cells |-> r.cells, ret |-> r.root ]

NoHeap == [ before |-> <<>>, arg |-> Null, cells |-> <<>>, ret |-> Null ]

-----------------------------------------------------------------------------
(* Query filters (graph/filters.ts).  A path is the list of its characters. *)

\* path.endsWith('/')
endsWithSlash(path) == Len(path) > 0 /\ path[Len(path)] = "/"

\* normalizePath as the identity on both forms
normalizePath_AsGiven(path) ==
  [ pathWithTrailingSlash |-> path, pathWithoutTrailingSlash |-> path ]

normalizePath(path) ==
  IF endsWithSlash(path)
    THEN [ pathWithTrailingSlash |-> path,
           pathWithoutTrailingSlash |-> SubSeq(path, 1, Len(path) - 1) ]
    ELSE [ pathWithTrailingSlash |-> Append(path, "/"),
           pathWithoutTrailingSlash |-> path ]

NoFilter ==
  [ kind |-> "none", clauses |-> <<>>, key |-> "", version |-> "", locale |-> "",
    locales |-> <<>> ]

\* one clause { _metadata: { url: { default: { eq }, base } } }; base "" is undefined
urlClause(default, host) == [ default |-> default, base |-> host ]

\* `path` is the value of `path || process.env.APPLICATION_HOST`, a string
pathFilter(path, host) ==
  [ NoFilter EXCEPT
      !.kind = "path",
      !.clauses = << urlClause(normalizePath(path).pathWithTrailingSlash, host),
                     urlClause(normalizePath(path).pathWithoutTrailingSlash, host) >> ]

NoFilterResult == [ threw |-> FALSE, error |-> "", filter |-> NoFilter ]

\* the call pathFilter(path, host) with process.env.APPLICATION_HOST = env
\* (line 32): an empty path reads the environment, and an undefined value
\* fails at `path.endsWith`
pathFilterCall(path, host, env) ==
  IF path = <<>> /\ ~env.defined
    THEN [ NoFilterResult EXCEPT !.threw = TRUE, !.error = "TypeError" ]
    ELSE [ NoFilterResult EXCEPT
             !.filter = pathFilter(IF path = <<>> THEN env.val ELSE path, host) ]

previewFilter(p) ==
  [ NoFilter EXCEPT !.kind = "preview", !.key = p.key, !.version = p.ver, !.locale = p.loc ]

\* lines 86-90 and index.ts lines 374-376: { ...filter, ...localeFilter(locales) };
\* no locales is the empty list
localeFilter(filter, locales) == [ filter EXCEPT !.locales = locales ]

-----------------------------------------------------------------------------
(* Graph client (graph/index.ts, class GraphClient)                        *)

\* a field that is absent reads as undefined
Undefined == [ tag |-> "undefined", val |-> "", keys |-> <<>>, items |-> <<>> ]

isNullish(v) == v.tag \in {"null", "undefined"}

\* !v
isFalsy(v) ==
  \/ isNullish(v)
  \/ v.tag = "str" /\ v.val = ""
  \/ v.tag = "num" /\ v.val = "0"
  \/ v.tag = "bool" /\ v.val = "false"

\* v.name, for v neither null nor undefined
member(v, name) == IF v.tag = "obj" /\ HasKey(v, <<name>>) THEN Get(v, <<name>>) ELSE Undefined

\* v?.name
optionalMember(v, name) == IF isNullish(v) THEN Undefined ELSE member(v, name)

\* v?.[0]
optionalFirst(v) ==
  IF v.tag = "arr" /\ Len(v.items) > 0 THEN v.items[1] ELSE Undefined

\* The errors thrown.  `kind` is the class: the four of graph/error.ts, the
\* error of the composer, and the errors of the runtime (TypeError,
\* SyntaxError, or whatever else fetch rejected with).
NoQuery == [ name |-> "", shell |-> NoShell, frags |-> <<>> ]

\* the request options an error is constructed with: { query, variables }
NoRequest == [ query |-> NoQuery, variables |-> NoFilter ]

NoError ==
  [ kind |-> "", message |-> "", status |-> 0, request |-> NoRequest, errors |-> Undefined ]

ErrorOf(kind, message) == [ NoError EXCEPT !.kind = kind, !.message = message ]

GET_CONTENT_METADATA_QUERY == [ name |-> "GetContentMetadata", shell |-> NoShell, frags |-> <<>> ]

\* lines 58-88: the links of type PATH
GET_PATH_QUERY == [ name |-> "GetPath(PATH)", shell |-> NoShell, frags |-> <<>> ]

\* lines 90-120: the links of type ITEMS
GET_ITEMS_QUERY == [ name |-> "GetPath(ITEMS)", shell |-> NoShell, frags |-> <<>> ]

\* the document createSingleContentQuery / createMultipleContentQuery returned
ContentQuery(shell, frags) == [ name |-> "content", shell |-> shell, frags |-> frags ]

\* lines 229-244: the HTTP request sent.  `auth` is the auth parameter of the
\* URL ("" when absent), `authorization` the Authorization header.
httpRequest(key, query, variables, previewToken) ==
  [ query |-> query, variables |-> variables,
    auth |-> IF previewToken = "" THEN key ELSE "",
    authorization |-> IF previewToken = "" THEN "" ELSE "Bearer " \o previewToken ]

Thrown(error) == [ threw |-> TRUE, error |-> error, data |-> Undefined ]

Returns(data) == [ threw |-> FALSE, error |-> NoError, data |-> data ]

\* lines 256-284: the response is not ok.  text is the body, or the status
\* text when the body cannot be read; json is what JSON.parse(text) gives
\* and parses says whether it gives anything.
notOkResult(response, query, variables) ==
  IF ~response.readable \/ ~response.parses
    THEN Thrown([ ErrorOf("GraphHttpResponseError",
                          IF response.readable THEN response.text ELSE response.statusText)
                    EXCEPT !.status = response.status,
                           !.request = [ query |-> query, variables |-> variables ] ])
  ELSE IF isNullish(response.json)
    THEN Thrown(ErrorOf("TypeError", "Cannot read properties of null (reading 'errors')"))
  ELSE IF ~isFalsy(member(response.json, "errors"))
    THEN Thrown([ ErrorOf("GraphContentResponseError", "")
                    EXCEPT !.status = response.status,
                           !.errors = member(response.json, "errors"),
                           !.request = [ query |-> query, variables |-> variables ] ])
  ELSE Thrown([ ErrorOf("GraphHttpResponseError", response.statusText)
                  EXCEPT !.status = response.status,
                         !.request = [ query |-> query, variables |-> variables ] ])

\* lines 286-288: the response is ok
okResult(response) ==
  IF ~response.readable \/ ~response.parses
    THEN Thrown(ErrorOf("SyntaxError", "Unexpected token"))
  ELSE IF isNullish(response.json)
    THEN Thrown(ErrorOf("TypeError", "Cannot read properties of null (reading 'data')"))
  ELSE Returns(member(response.json, "data"))

\* line 256: response.ok
isOk(response) == response.ok

\* lines 245-288: what `request` does with the outcome of fetch
requestResult(response, query, variables) ==
  IF response.fetch = "TypeError"
    THEN Thrown(ErrorOf("OptimizelyGraphError",
                        "Error when calling fetch. Ensure the Graph URL is correct or try again later."))
  ELSE IF response.fetch # "response"
    THEN Thrown(ErrorOf(response.fetch, ""))
  ELSE IF ~isOk(response) THEN notOkResult(response, query, variables)
  ELSE okResult(response)

NoMetaData == [ contentTypeName |-> Undefined, damEnabled |-> FALSE ]

\* line 308: data._Content?.item?._metadata?.types?.[0]
firstTypeName(data) ==
  optionalFirst(optionalMember(optionalMember(optionalMember(member(data, "_Content"),
                                                             "item"), "_metadata"), "types"))

\* line 310: data.damAssetType !== null
damEnabledOf(data) == member(data, "damAssetType").tag # "null"

\* mutant: an empty type name is a type name
hasNoTypeName_Nullish(contentTypeName) == isNullish(contentTypeName)

\* lines 312, 355, 439: !contentTypeName
hasNoTypeName(contentTypeName) == isFalsy(contentTypeName)

\* any type name passes
isStringTypeName_Any(contentTypeName) == TRUE

\* line 316: typeof contentTypeName === 'string'
isStringTypeName(contentTypeName) == contentTypeName.tag = "str"

\* lines 308-328: getContentMetaData once `request` returned data.
\* Returns [threw, error, data], data being [contentTypeName, damEnabled].
metaDataResult(data, input) ==
  IF isNullish(data)
    THEN [ threw |-> TRUE,
           error |-> ErrorOf("TypeError", "Cannot read properties of undefined (reading '_Content')"),
           data |-> NoMetaData ]
  ELSE IF hasNoTypeName(firstTypeName(data))
    THEN [ threw |-> FALSE, error |-> NoError,
           data |-> [ contentTypeName |-> Null, damEnabled |-> damEnabledOf(data) ] ]
  ELSE IF ~ isStringTypeName(firstTypeName(data))
    THEN [ threw |-> TRUE,
           error |-> [ ErrorOf("GraphResponseError", "Returned type is not 'string'")
                         EXCEPT !.request = [ query |-> GET_CONTENT_METADATA_QUERY,
                                              variables |-> input ] ],
           data |-> NoMetaData ]
  ELSE [ threw |-> FALSE, error |-> NoError,
         data |-> [ contentTypeName |-> firstTypeName(data),
                    damEnabled |-> damEnabledOf(data) ] ]

\* line 362: response?._Content?.items.map(removeTypePrefix)
itemsResult(response) ==
  IF isNullish(optionalMember(response, "_Content")) THEN Returns(Undefined)
  ELSE IF member(member(response, "_Content"), "items").tag # "arr"
    THEN Thrown(ErrorOf("TypeError", "Cannot read properties of undefined (reading 'map')"))
  ELSE Returns(Arr([i \in 1..Len(member(member(response, "_Content"), "items").items) |->
                      removeTypePrefix(member(member(response, "_Content"), "items").items[i])]))

\* lines 448-451: decorateWithContext(removeTypePrefix(response?._Content?.item), params)
itemResult(response, p) ==
  Returns(decorateWithContext(
            removeTypePrefix(optionalMember(optionalMember(response, "_Content"), "item")), p))

\* link._metadata?.key
linkKey(link) == optionalMember(member(link, "_metadata"), "key")

\* linkMap.get(key): the last link of that key, a list of at most one
linkOf(links, key) ==
  LET hits == SelectSeq(links, LAMBDA l : linkKey(l) = key)
  IN IF Len(hits) = 0 THEN <<>> ELSE <<hits[Len(hits)]>>

\* the links as the response lists them
sortedLinks_AsReceived(links, sortedKeys, i) == links

\* lines 404-406: sortedKeys.map((key) => linkMap.get(key)).filter(...)
RECURSIVE sortedLinks(_, _, _)
sortedLinks(links, sortedKeys, i) ==
  IF i > Len(sortedKeys) THEN <<>>
  ELSE linkOf(links, sortedKeys[i]) \o sortedLinks(links, sortedKeys, i + 1)

ReadOfMissing == ErrorOf("TypeError", "Cannot read properties of undefined")

\* data._Content.item, or nothing when a step of the read fails
rootItem(data) ==
  IF isNullish(data) \/ isNullish(member(data, "_Content"))
       \/ isNullish(member(member(data, "_Content"), "item"))
    THEN <<>>
    ELSE << member(member(data, "_Content"), "item") >>

\* item._link._Page.items, or nothing when a step of the read fails
pageItems(item) ==
  IF isNullish(member(item, "_link")) \/ isNullish(member(member(item, "_link"), "_Page"))
    THEN <<>>
    ELSE << member(member(member(item, "_link"), "_Page"), "items") >>

\* lines 378-406: getPath after its request returned data
pathResult(data, variables) ==
  IF rootItem(data) = <<>> THEN Thrown(ReadOfMissing)
  ELSE IF isFalsy(member(rootItem(data)[1], "_id")) THEN Returns(Null)
  ELSE IF pageItems(rootItem(data)[1]) = <<>> THEN Thrown(ReadOfMissing)
  ELSE IF isNullish(member(rootItem(data)[1], "_metadata")) THEN Thrown(ReadOfMissing)
  ELSE IF isFalsy(member(member(rootItem(data)[1], "_metadata"), "path"))
    THEN Thrown([ ErrorOf("GraphResponseError",
                          "The _metadata does not contain any path field")
                    EXCEPT !.request = [ query |-> GET_PATH_QUERY, variables |-> variables ] ])
  ELSE IF pageItems(rootItem(data)[1])[1].tag # "arr"
    THEN Thrown(ErrorOf("TypeError", "links.map is not a function"))
  ELSE IF \E i \in 1..Len(pageItems(rootItem(data)[1])[1].items) :
            isNullish(pageItems(rootItem(data)[1])[1].items[i])
    THEN Thrown(ReadOfMissing)
  ELSE IF member(member(rootItem(data)[1], "_metadata"), "path").tag # "arr"
    THEN Thrown(ErrorOf("TypeError", "sortedKeys.map is not a function"))
  ELSE Returns(Arr(sortedLinks(pageItems(rootItem(data)[1])[1].items,
                               member(member(rootItem(data)[1], "_metadata"), "path").items,
                               1)))

\* lines 420-428: getItems after its request returned data
childItemsResult(data) ==
  IF rootItem(data) = <<>> THEN Thrown(ReadOfMissing)
  ELSE IF isFalsy(member(rootItem(data)[1], "_id")) THEN Returns(Null)
  ELSE IF pageItems(rootItem(data)[1]) = <<>> THEN Thrown(ReadOfMissing)
  ELSE Returns(pageItems(rootItem(data)[1])[1])

\* the client has not been called
NoMethod ==
  [ name |-> "", path |-> <<>>, host |-> "", env |-> <<>>, envDefined |-> FALSE,
    locales |-> <<>>,
    params |-> [ preview_token |-> "", key |-> "", ctx |-> "", ver |-> "", loc |-> "" ] ]

NoOutcome == [ kind |-> "pending", value |-> Undefined, error |-> NoError ]

-----------------------------------------------------------------------------
(* The calls and responses explored for the Graph client                   *)

ApiKey == "KEY"

Paths == { <<>>, <<"/">>, <<"/", "a">>, <<"/", "a", "/">> }

Hosts == { "", "example.com" }

\* process.env.APPLICATION_HOST: unset, or a path
Environments == { [ defined |-> FALSE, val |-> <<>> ], [ defined |-> TRUE, val |-> <<"/", "h">> ] }

PreviewParams ==
  [ preview_token : {"", "tok"}, key : {"k1"}, ctx : {"edit", "view"}, ver : {"3"}, loc : {"en"} ]

\* registries in which "A" is a page; "Z" is registered in none
ClientRegistries ==
  { << ContentType("A", "_page",
         <<Prop("title", "string"), Prop("image", "contentReference")>>, <<>>) >>,
    << ContentType("A", "_page", <<Prop("title", "string")>>, <<>>) >>,
    << ContentType("A", "_page", <<Component("block", "B")>>, <<>>),
       ContentType("B", "_component", <<Prop("image", "contentReference")>>,
                   <<"elementEnabled">>) >>,
    << ContentType("A", "_page", <<Component("block", "B")>>, <<>>) >> }

Failure(kind) ==
  [ fetch |-> kind, ok |-> FALSE, status |-> 0, statusText |-> "", readable |-> FALSE,
    parses |-> FALSE, text |-> "", json |-> Undefined ]

\* a response whose body is the JSON value json
JsonResponse(ok, json) ==
  [ fetch |-> "response", ok |-> ok,
    status |-> IF ok THEN 200 ELSE 500,
    statusText |-> IF ok THEN "OK" ELSE "Internal Server Error",
    readable |-> TRUE, parses |-> TRUE, text |-> "json", json |-> json ]

\* a response whose body is not JSON
TextResponse(ok) ==
  [ JsonResponse(ok, Undefined) EXCEPT !.parses = FALSE, !.text = "<html>" ]

\* a response whose body cannot be read
BrokenResponse(ok) ==
  [ JsonResponse(ok, Undefined) EXCEPT !.readable = FALSE, !.parses = FALSE, !.text = "" ]

GraphErrors == Arr(<< Obj(<< <<"message">> >>, << Str("Cannot query field") >>) >>)

\* the outcomes of fetch that are not a 2xx response with a JSON body
FailedResponses ==
  { Failure("TypeError"), Failure("AbortError"),
    TextResponse(TRUE), TextResponse(FALSE), BrokenResponse(TRUE), BrokenResponse(FALSE),
    JsonResponse(FALSE, Null),
    JsonResponse(FALSE, Obj(<<>>, <<>>)),
    JsonResponse(FALSE, Obj(<< <<"errors">> >>, << GraphErrors >>)),
    JsonResponse(FALSE, Obj(<< <<"errors">> >>, << Null >>)),
    JsonResponse(FALSE, Obj(<< <<"data">>, <<"errors">> >>, << Null, GraphErrors >>)) }

\* 2xx bodies without usable data
EmptyBodies ==
  { Null, Obj(<<>>, <<>>),
    Obj(<< <<"data">> >>, << Null >>),
    Obj(<< <<"data">>, <<"errors">> >>, << Null, GraphErrors >>),
    Obj(<< <<"data">> >>, << Obj(<<>>, <<>>) >>),
    Obj(<< <<"data">> >>, << Obj(<< <<"_Content">>, <<"damAssetType">> >>, << Null, Null >>) >>),
    Obj(<< <<"data">> >>, << Obj(<< <<"_Content">> >>, << Obj(<<>>, <<>>) >>) >>) }

AssetType == Obj(<< TypenameKey >>, << Str("__Type") >>)

\* the data of a probe response: _metadata.types and damAssetType
ProbeData(types, damAssetType) ==
  Obj(<< <<"_Content">>, <<"damAssetType">> >>,
      << Obj(<< <<"item">> >>,
             << Obj(<< <<"_metadata">> >>, << Obj(<< <<"types">> >>, << types >>) >>) >>),
         damAssetType >>)

ProbeTypes ==
  { Null, Arr(<<>>), Arr(<< Str("") >>), Arr(<< Null >>), Arr(<< Num("1") >>),
    Arr(<< Str("A") >>), Arr(<< Str("A"), Str("_Page") >>), Arr(<< Str("Z") >>) }

ProbeBodies ==
  { Obj(<< <<"data">> >>, << ProbeData(types, dam) >>) :
      types \in ProbeTypes, dam \in { Null, AssetType } }
    \cup { Obj(<< <<"data">> >>,
               << Obj(<< <<"_Content">> >>,
                      << Obj(<< <<"item">> >>,
                             << Obj(<< <<"_metadata">> >>,
                                    << Obj(<< <<"types">> >>, << types >>) >>) >>) >>) >>) :
             types \in { Arr(<<>>), Arr(<< Str("A") >>) } }
    \cup { Obj(<< <<"data">> >>,
               << Obj(<< <<"_Content">>, <<"damAssetType">> >>,
                      << Obj(<< <<"item">> >>, << Null >>), Null >>) >>) }

ProbeResponses ==
  FailedResponses \cup { JsonResponse(TRUE, b) : b \in EmptyBodies \cup ProbeBodies }

Items ==
  << Obj(<< TypenameKey, <<"A", "title">> >>, << Str("A"), Str("Home") >>),
     Obj(<< TypenameKey, <<"A", "title">>, <<"_id">> >>, << Str("A"), Str("News"), Str("7") >>) >>

ContentBodies ==
  { Obj(<< <<"data">> >>, << Obj(<< <<"_Content">> >>, << c >>) >>) :
      c \in { Obj(<< <<"items">> >>, << Arr(<<>>) >>),
              Obj(<< <<"items">> >>, << Arr(<< Items[1] >>) >>),
              Obj(<< <<"items">> >>, << Arr(Items) >>),
              Obj(<< <<"items">> >>, << Null >>),
              Obj(<< <<"item">> >>, << Items[1] >>),
              Obj(<< <<"item">> >>, << Null >>) } }

\* a link of the page: its metadata with key and sortOrder
Link(key, sortOrder) ==
  Obj(<< <<"_metadata">> >>,
      << Obj(<< <<"key">>, <<"sortOrder">> >>, << Str(key), Num(sortOrder) >>) >>)

\* the item of a links response
LinksItem(id, metadata, link) ==
  Obj(<< <<"_id">>, <<"_metadata">>, <<"_link">> >>, << id, metadata, link >>)

PathOf(keys) == Obj(<< <<"path">> >>, << keys >>)

PageOf(items) == Obj(<< <<"_Page">> >>, << Obj(<< <<"items">> >>, << items >>) >>)

LinkLists ==
  { Arr(<<>>),
    Arr(<< Link("k2", "1"), Link("k1", "2") >>),
    Arr(<< Link("k1", "2"), Obj(<<>>, <<>>), Link("k1", "1") >>),
    Arr(<< Null, Link("k1", "1") >>),
    Null }

SortedKeys ==
  { Arr(<<>>), Arr(<< Str("k1"), Str("k2") >>), Arr(<< Str("k1"), Str("k3"), Str("k2") >>), Null }

LinksItems ==
  { Null,
    LinksItem(Null, Null, Null),
    LinksItem(Str(""), PathOf(Arr(<<>>)), PageOf(Arr(<<>>))),
    LinksItem(Str("x"), Obj(<<>>, <<>>), PageOf(Arr(<< Link("k1", "1") >>))),
    LinksItem(Str("x"), Null, PageOf(Arr(<<>>))),
    LinksItem(Str("x"), PathOf(Arr(<< Str("k1") >>)), Null),
    LinksItem(Str("x"), PathOf(Arr(<< Str("k1") >>)), Obj(<<>>, <<>>)) }
  \cup { LinksItem(Str("x"), PathOf(keys), PageOf(links)) :
           keys \in SortedKeys, links \in LinkLists }

LinksBodies ==
  { Obj(<< <<"data">> >>, << Obj(<< <<"_Content">> >>, << Obj(<< <<"item">> >>, << i >>) >>) >>) :
      i \in LinksItems }

LinksResponses ==
  FailedResponses \cup { JsonResponse(TRUE, b) : b \in EmptyBodies \cup LinksBodies }

Locales == { <<>>, <<"en">> }

ContentResponses ==
  FailedResponses \cup { JsonResponse(TRUE, b) : b \in EmptyBodies \cup ContentBodies }

-----------------------------------------------------------------------------
(* Composer state machine                                                  *)

\* the base types a registry names in its allow lists
ReferencedBaseKeys(reg) ==
  UNION { Range(Unwrap(p).allowedTypes) \cap (UnderscoreKeys \ {"_self"}) :
            p \in UNION { PropsOf(c, TRUE) : c \in Range(reg) } }

\* The fragment names one composition can visit: <key> and <key>Property
\* for a registered key, <key> for a base type of an allow list, and the root.
FragmentNameBound(reg) == 2 * Len(reg) + Cardinality(ReferencedBaseKeys(reg)) + 1

\* the nesting of createFragment calls allowed: one more than the names there are
DepthBudget(reg) == FragmentNameBound(reg) + 1

NoCall == [ op |-> "none", contentType |-> "", suffix |-> "", includeBase |-> FALSE,
            damEnabled |-> FALSE ]

NoResult == [ frags |-> <<>>, shell |-> NoShell, err |-> "", over |-> FALSE ]

\* no response has been handed to the normalizer
NormalizerIdle ==
  /\ tree = NoTree
  /\ previewParams = NoParams
  /\ value = NoTree
  /\ prev = NoTree
  /\ steps = <<>>
  /\ heap = NoHeap

\* no method of the client has been called
ClientIdle ==
  /\ method = NoMethod
  /\ pc = "idle"
  /\ sent = <<>>
  /\ received = <<>>
  /\ replies = <<>>
  /\ metaData = NoMetaData
  /\ outcome = NoOutcome

\* pathFilter has not been called
FilterIdle == filterCalls = <<>>

\* nothing was registered or built in a session
SessionIdle == history = <<>>

Init ==
  /\ registry \in Registries
  /\ allContentTypes = <<>>
  /\ call = NoCall
  /\ result = NoResult
  /\ NormalizerIdle
  /\ ClientIdle
  /\ FilterIdle
  /\ SessionIdle

\* r is what the composition returned: the call and its result are recorded
Completed(op, T, suffix, includeBase, damEnabled, r) ==
  /\ call' = [ op |-> op, contentType |-> T, suffix |-> suffix,
               includeBase |-> includeBase, damEnabled |-> damEnabled ]
  /\ allContentTypes' = r.st.cache
  /\ result' = [ frags |-> r.frags,
                 shell |-> CASE Aborted(r.st) -> NoShell
                             [] op = "createSingleContentQuery" ->
                                  createSingleContentQuery(r, T)
                             [] op = "createMultipleContentQuery" ->
                                  createMultipleContentQuery(r, T)
                             [] OTHER -> NoShell,
                 err |-> r.st.err, over |-> r.st.over ]

\* createFragment(T, new Set(), '', true, damEnabled)
CreateFragment ==
  \E T \in Keys \cup {"_image"}, damEnabled \in BOOLEAN :
    /\ call.op = "none"
    /\ Completed("createFragment", T, "", TRUE, damEnabled,
                 composeRoot(registry, allContentTypes, T, "", TRUE, damEnabled, DepthBudget(registry)))
    /\ UNCHANGED <<registry, normalizerVars, clientVars, filterVars, sessionVars>>

\* createFragment(T, new Set(), 'Property', false, damEnabled)
CreateFragmentProperty ==
  \E T \in Keys, damEnabled \in BOOLEAN :
    /\ call.op = "none"
    /\ Completed("createFragment", T, "Property", FALSE, damEnabled,
                 composeRoot(registry, allContentTypes, T, "Property", FALSE, damEnabled,
                             DepthBudget(registry)))
    /\ UNCHANGED <<registry, normalizerVars, clientVars, filterVars, sessionVars>>

CreateSingleContentQuery ==
  \E T \in Keys, damEnabled \in BOOLEAN :
    /\ call.op = "none"
    /\ Completed("createSingleContentQuery", T, "", TRUE, damEnabled,
                 composeRoot(registry, allContentTypes, T, "", TRUE, damEnabled, DepthBudget(registry)))
    /\ UNCHANGED <<registry, normalizerVars, clientVars, filterVars, sessionVars>>

CreateMultipleContentQuery ==
  \E T \in Keys, damEnabled \in BOOLEAN :
    /\ call.op = "none"
    /\ Completed("createMultipleContentQuery", T, "", TRUE, damEnabled,
                 composeRoot(registry, allContentTypes, T, "", TRUE, damEnabled, DepthBudget(registry)))
    /\ UNCHANGED <<registry, normalizerVars, clientVars, filterVars, sessionVars>>

Next ==
  \/ CreateFragment
  \/ CreateFragmentProperty
  \/ CreateSingleContentQuery
  \/ CreateMultipleContentQuery

Spec == Init /\ [][Next]_vars

-----------------------------------------------------------------------------
(* Observations of the call made                                           *)

Called == call.op # "none"

Root == Node(call.contentType, call.suffix)

\* createFragment(T, fresh visited, '', true, damEnabled), directly or from a query builder
TopLevel == Called /\ call.suffix = "" /\ call.includeBase

Returned == Called /\ result.err = "" /\ ~ result.over

FragmentNames == { result.frags[i].name : i \in 1..Len(result.frags) }

DefinitionsOf(name) == { i \in 1..Len(result.frags) : result.frags[i].name = name }

FieldsOf(frag) == Range(frag.fields)

\* the text of the fragment contains the name
Mentions(frag, name) ==
  frag.name = name \/ \E f \in FieldsOf(frag) : name \in Range(f.spreads)

DamNames == {"PublicImageAsset", "PublicVideoAsset", "PublicRawFileAsset", "ContentReferenceItem"}

FixedNames ==
  DamNames \cup { COMMON_FRAGMENTS[i].name : i \in 1..Len(COMMON_FRAGMENTS) }
           \cup {"_IExperience", "ICompositionNode", "_IComponent"}

-----------------------------------------------------------------------------
(* Claims on the fragment composer                                         *)

\* an upper bound on the fragments one document can define
MaxFragments == Cardinality(FixedNames) + FragmentNameBound(registry)

\* C1: when every referenced key is registered, a top-level createFragment
\* call (fresh visited set, suffix '', base fragments included) terminates: the
\* nesting of calls stays within the number of fragment names, nothing is
\* thrown and a finite non-empty list is returned, also for types that allow
\* themselves directly, through '_self' or through a chain of other types.
C1_ComposeTerminates ==
  ( /\ TopLevel
    /\ AllReferencedRegistered(registry)
    /\ (call.contentType \in RegisteredKeys(registry) \/ isBaseType(call.contentType)) )
  => ( /\ ~ result.over
       /\ result.err = ""
       /\ Len(result.frags) \in 1..MaxFragments )

\* a returned composition of a type that allows itself through another type
C1_Witness ==
  /\ TopLevel /\ Returned /\ AllReferencedRegistered(registry)
  /\ \E n \in Reach(registry, Root, ByProperties) :
       /\ n.key # Root.key
       /\ n.key \in RegisteredKeys(registry)
       /\ Root \in Reach(registry, n, ByProperties)

C3_NoDamNamesWhenDisabled ==
  (Called /\ ~ call.damEnabled) =>
    \A name \in DamNames :
      /\ \A frag \in Range(result.frags) : ~ Mentions(frag, name)
      /\ name \notin Range(result.shell.spreads)

\* a query built with DAM disabled that selects a contentReference of a nested type
C3_Witness ==
  /\ Returned /\ ~ call.damEnabled /\ call.op = "createMultipleContentQuery"
  /\ \E n \in Reach(registry, Root, ByProperties) :
       n # Root /\ HasContentReference(registry, n, FALSE)
  /\ \E frag \in Range(result.frags) : \E f \in FieldsOf(frag) : f.kind = "contentReference"

\* C4: with damEnabled = true, when an indexed contentReference is reachable
\* from the root (directly, as array items, through a component property or
\* through an allowed content type), each of the four DAM fragments is defined
\* exactly once and every contentReference selection spreads ContentReferenceItem.
C4_DamFragmentsOnceWhenEnabled ==
  ( /\ Returned /\ call.damEnabled
    /\ \E n \in Reach(registry, Root, ByProperties) : HasContentReference(registry, n, FALSE) )
  => ( /\ \A name \in DamNames : Cardinality(DefinitionsOf(name)) = 1
       /\ \A frag \in Range(result.frags) : \A f \in FieldsOf(frag) :
            f.kind = "contentReference" => "ContentReferenceItem" \in Range(f.spreads) )

\* DAM enabled, and contentReference properties in two different composed types
C4_Witness ==
  /\ Returned /\ call.damEnabled
  /\ Cardinality({ n \in Reach(registry, Root, ByProperties) :
                     HasContentReference(registry, n, FALSE) }) >= 2
  /\ \A name \in DamNames : Cardinality(DefinitionsOf(name)) = 1

NoDamFragment == \A name \in DamNames : DefinitionsOf(name) = {}

ByComponents == [ disabled |-> TRUE, content |-> FALSE, experience |-> FALSE ]

Everything == [ disabled |-> TRUE, content |-> TRUE, experience |-> TRUE ]

\* C5 as stated: a root with no contentReference in its own properties nor in
\* the types nested through component properties emits no DAM fragment,
\* whatever else is registered.
C5_Original ==
  ( /\ TopLevel /\ Returned
    /\ \A n \in Reach(registry, Root, ByComponents) : ~ HasContentReference(registry, n, TRUE) )
  => NoDamFragment

\* C5 (amended): a root emits no DAM fragment, with damEnabled true or false,
\* when no type composed with it has a contentReference property: the root, the
\* types nested through component properties, the allowed types of content
\* properties and, below an experience, the composition element types.
C5_NoDamWithoutContentReference ==
  ( /\ TopLevel /\ Returned
    /\ \A n \in Reach(registry, Root, Everything) : ~ HasContentReference(registry, n, TRUE) )
  => NoDamFragment

\* DAM enabled, an experience root composed with element types, none of the
\* composed types has a contentReference
C5_Witness ==
  /\ TopLevel /\ Returned /\ call.damEnabled
  /\ Root.key \in RegisteredKeys(registry)
  /\ TypeOf(registry, Root.key).baseType = "_experience"
  /\ Cardinality(Reach(registry, Root, Everything)) >= 2
  /\ \A n \in Reach(registry, Root, Everything) : ~ HasContentReference(registry, n, TRUE)
  /\ NoDamFragment

\* the kind of field a property definition compiles to
FieldKind(p) ==
  LET t == Unwrap(p).type
  IN IF t \in {"component", "content", "richText", "url", "link", "contentReference"}
       THEN t ELSE "scalar"

\* the indexed properties of a type, in declaration order
IndexedProperties(ct) == SelectSeq(ct.properties, LAMBDA p : p.indexingType # "disabled")

PropertyFields(frag) == SelectSeq(frag.fields, LAMBDA f : f.prop # "")

\* the nodes whose fragment carries the base fragments
WithBase(n) == IF n = Root THEN call.includeBase ELSE n.suffix = ""

NeedsContentUrl(reg, n) ==
  \/ WithBase(n)
  \/ /\ n.key \in RegisteredKeys(reg)
     /\ \E p \in PropsOf(TypeOf(reg, n.key), FALSE) :
          Unwrap(p).type \in {"url", "link", "contentReference"}

\* C6: in the fragment generated for a registered type, top-level or
\* 'Property'-suffixed, the property fields are exactly the fields of the
\* indexed properties, in order, each of its kind; a disabled property
\* contributes no field and no dependent fragment: every type fragment of the
\* output is asked for by an indexed property (or the experience composition),
\* and ContentUrl and the DAM fragments are present only when needed by one.
C6_DisabledPropertiesExcluded ==
  Returned =>
    /\ \A frag \in Range(result.frags) :
         \A n \in Reach(registry, Root, Composed) :
           (frag.name = n.key \o n.suffix /\ n.key \in RegisteredKeys(registry)) =>
             LET want == IndexedProperties(TypeOf(registry, n.key))
                 got  == PropertyFields(frag)
             IN /\ Len(got) = Len(want)
                /\ \A i \in 1..Len(want) :
                     got[i].prop = want[i].name /\ got[i].kind = FieldKind(want[i])
    /\ FragmentNames \ FixedNames = { n.key \o n.suffix : n \in Reach(registry, Root, Composed) }
    /\ "ContentUrl" \in FragmentNames =>
         \E n \in Reach(registry, Root, Composed) : NeedsContentUrl(registry, n)
    /\ ~ NoDamFragment =>
         \E n \in Reach(registry, Root, Composed) : HasContentReference(registry, n, FALSE)

\* a 'Property'-suffixed fragment of a type with a disabled contentReference
\* next to an indexed property, composed with DAM enabled
C6_Witness ==
  /\ Returned /\ call.suffix = "Property" /\ call.damEnabled
  /\ Root.key \in RegisteredKeys(registry)
  /\ \E p \in PropsOf(TypeOf(registry, Root.key), TRUE) :
       p.indexingType = "disabled" /\ p.type = "contentReference"
  /\ Len(IndexedProperties(TypeOf(registry, Root.key))) >= 1
  /\ NoDamFragment

-----------------------------------------------------------------------------
(* Normalizer state machine: a response tree goes through removeTypePrefix *)
(* and decorateWithContext, as in getContentByPath and getPreviewContent.  *)

InitNormalizer ==
  /\ registry = <<>>
  /\ allContentTypes = <<>>
  /\ call = NoCall
  /\ result = NoResult
  /\ tree \in Trees
  /\ previewParams \in Params
  /\ value = tree
  /\ prev = tree
  /\ steps = <<>>
  /\ heap = Applied(<<>>, tree, parse(<<>>, tree))
  /\ ClientIdle
  /\ FilterIdle
  /\ SessionIdle

\* value = removeTypePrefix(value)
RemoveTypePrefix ==
  /\ Len(steps) < MaxSteps
  /\ value' = removeTypePrefix(value)
  /\ prev' = value
  /\ steps' = Append(steps, "removeTypePrefix")
  /\ heap' = Applied(heap.cells, heap.ret, removeTypePrefixIn(heap.cells, heap.ret))
  /\ UNCHANGED <<tree, previewParams, composerVars, clientVars, filterVars, sessionVars>>

\* value = decorateWithContext(value, previewParams)
DecorateWithContext ==
  /\ Len(steps) < MaxSteps
  /\ value' = decorateWithContext(value, previewParams)
  /\ prev' = value
  /\ steps' = Append(steps, "decorateWithContext")
  /\ heap' = Applied(heap.cells, heap.ret,
                      decorateWithContextIn(heap.cells, heap.ret, previewParams))
  /\ UNCHANGED <<tree, previewParams, composerVars, clientVars, filterVars, sessionVars>>

NextNormalizer ==
  \/ RemoveTypePrefix
  \/ DecorateWithContext

SpecNormalizer == InitNormalizer /\ [][NextNormalizer]_vars

-----------------------------------------------------------------------------
(* Claims on the response normalizer                                       *)

LastStep == IF steps = <<>> THEN "" ELSE steps[Len(steps)]

\* the last function applied was applied to its own result
AppliedTwice(f) ==
  Len(steps) >= 2 /\ steps[Len(steps)] = f /\ steps[Len(steps) - 1] = f

\* the objects and arrays of a tree, itself included
RECURSIVE Nodes(_)
Nodes(t) == {t} \cup UNION { Nodes(t.items[i]) : i \in 1..Len(t.items) }

Objects(t) == { n \in Nodes(t) : n.tag = "obj" }

\* the type name an object carries, when it is a string
StringTypename(o) ==
  { o.items[i].val : i \in { j \in 1..Len(o.keys) : o.keys[j] = TypenameKey /\ o.items[j].tag = "str" } }

\* key k of object o starts with "<typename>__"
Prefixed(o, k) == \E t \in StringTypename(o) : Len(k) >= 2 /\ k[1] = t

\* the key that the claim says replaces k
Unprefixed(o, k) == IF Prefixed(o, k) THEN Tail(k) ELSE k

\* C7 as stated: out has the shape of in, key for key
RECURSIVE SameShapeStripped(_, _)
SameShapeStripped(in, out) ==
  /\ out.tag = in.tag
  /\ out.val = in.val
  /\ Len(out.items) = Len(in.items)
  /\ Len(out.keys) = Len(in.keys)
  /\ \A i \in 1..Len(in.keys) : out.keys[i] = Unprefixed(in, in.keys[i])
  /\ \A i \in 1..Len(in.items) : SameShapeStripped(in.items[i], out.items[i])

\* the places of object `in` whose key becomes k
Sources(in, k) == { i \in 1..Len(in.keys) : Unprefixed(in, in.keys[i]) = k }

First(S) == CHOOSE i \in S : \A j \in S : i <= j
Last(S) == CHOOSE i \in S : \A j \in S : j <= i

\* two keys of the object become the same key
Collides(o) ==
  \E i, j \in 1..Len(o.keys) : i # j /\ Unprefixed(o, o.keys[i]) = Unprefixed(o, o.keys[j])

\* out is in with the prefixes removed; keys that become the same key
\* leave one entry, at the place of the first and with the value of the last
RECURSIVE Stripped(_, _)
Stripped(in, out) ==
  /\ out.tag = in.tag
  /\ out.val = in.val
  /\ IF in.tag = "obj"
       THEN /\ Len(out.items) = Len(out.keys)
            /\ { out.keys[j] : j \in 1..Len(out.keys) }
                 = { Unprefixed(in, in.keys[i]) : i \in 1..Len(in.keys) }
            /\ \A j1, j2 \in 1..Len(out.keys) :
                 j1 < j2 => First(Sources(in, out.keys[j1])) < First(Sources(in, out.keys[j2]))
            /\ \A j \in 1..Len(out.keys) :
                 Stripped(in.items[Last(Sources(in, out.keys[j]))], out.items[j])
       ELSE /\ out.keys = <<>>
            /\ Len(out.items) = Len(in.items)
            /\ \A i \in 1..Len(in.items) : Stripped(in.items[i], out.items[i])

\* C7 as stated: the result of removeTypePrefix has the shape of its
\* argument, each key of an object with a string __typename t that starts
\* with t + '__' replaced by the key without the prefix, every other key kept.
C7_Original == LastStep = "removeTypePrefix" => SameShapeStripped(prev, value)

\* C7 (amended): removeTypePrefix returns primitives unchanged, arrays
\* element by element, and for an object the keys of its argument, those
\* starting with "<typename>__" of a string __typename without that prefix;
\* objects without a string __typename keep their keys.  The result has the
\* shape of the argument when no two keys of an object become equal; keys
\* that become equal leave a single entry, holding the processed value of
\* the last of them.
C7_PrefixesRemoved ==
  LastStep = "removeTypePrefix" =>
    /\ Stripped(prev, value)
    /\ (\A o \in Objects(prev) : ~Collides(o)) => SameShapeStripped(prev, value)

\* a typed object nested in another lost a prefix, and two keys of the
\* outer object became one
C7_Witness ==
  /\ steps = <<"removeTypePrefix">>
  /\ \E o \in Objects(tree) \ {tree} : \E i \in 1..Len(o.keys) : Prefixed(o, o.keys[i])
  /\ Collides(tree)
  /\ value # tree

\* no key of an object with a string __typename starts with "<typename>__"
Normalized(t) == \A o \in Objects(t) : \A i \in 1..Len(o.keys) : ~Prefixed(o, o.keys[i])

\* C8 as stated: removeTypePrefix(removeTypePrefix(r)) equals
\* removeTypePrefix(r) for every tree r.
C8_Original == AppliedTwice("removeTypePrefix") => value = prev

\* C8 (amended): a tree in which no key of an object with a string
\* __typename starts with "<typename>__" is returned by removeTypePrefix as
\* an equal tree; so a second application changes nothing whenever the
\* first one left no such key.
C8_IdempotentOnNormalized ==
  (LastStep = "removeTypePrefix" /\ Normalized(prev)) => value = prev

\* the first application removed a prefix and left none, the second was applied
C8_Witness ==
  /\ steps = <<"removeTypePrefix", "removeTypePrefix">>
  /\ ~Normalized(tree)
  /\ Normalized(prev)
  /\ prev # tree
  /\ \E o \in Objects(prev) : StringTypename(o) # {}

\* the __context value the claim names
Context(p) ==
  Obj(<< <<"edit">>, <<"preview_token">> >>,
      << IF p.ctx = "edit" THEN Bool(TRUE) ELSE Bool(FALSE), Str(p.preview_token) >>)

HasTypenameKey(o) == \E i \in 1..Len(o.keys) : o.keys[i] = TypenameKey

\* every object of the tree that has a __typename key has this __context
AllContexts(t, p) ==
  \A o \in Objects(t) :
    HasTypenameKey(o) =>
      \E i \in 1..Len(o.keys) : o.keys[i] = ContextKey /\ o.items[i] = Context(p)

\* out is in with a __context on its objects that have a __typename key,
\* and nothing else changed
RECURSIVE Decorated(_, _, _)
Decorated(in, out, p) ==
  /\ out.tag = in.tag
  /\ out.val = in.val
  /\ Len(out.items) = Len(in.items) + (IF in.tag = "obj" /\ HasTypenameKey(in) /\ ~HasKey(in, ContextKey) THEN 1 ELSE 0)
  /\ Len(out.keys) = Len(in.keys) + (IF in.tag = "obj" /\ HasTypenameKey(in) /\ ~HasKey(in, ContextKey) THEN 1 ELSE 0)
  /\ \A i \in 1..Len(in.keys) : out.keys[i] = in.keys[i]
  /\ \A i \in 1..Len(out.keys) : i > Len(in.keys) => out.keys[i] = ContextKey
  /\ \A i \in 1..Len(out.items) :
       IF in.tag = "obj" /\ HasTypenameKey(in) /\ out.keys[i] = ContextKey
         THEN out.items[i] = Context(p)
         ELSE Decorated(in.items[i], out.items[i], p)

\* C9: decorateWithContext gives every object of its result that has a
\* __typename key, at every depth, __context = {edit: ctx = 'edit',
\* preview_token}; an object without __typename gets no __context; no other
\* key or value changes; a second application with the same params returns
\* an equal tree.
C9_ContextAttached ==
  /\ LastStep = "decorateWithContext" =>
       (Decorated(prev, value, previewParams) /\ AllContexts(value, previewParams))
  /\ AppliedTwice("decorateWithContext") => value = prev

\* decorated twice: a typed object inside an array or object, and an object
\* without __typename, which still has no __context
C9_Witness ==
  /\ steps = <<"decorateWithContext", "decorateWithContext">>
  /\ \E o \in Objects(tree) \ {tree} : HasTypenameKey(o) /\ ~HasKey(o, ContextKey)
  /\ \E o \in Objects(value) : ~HasTypenameKey(o) /\ ~HasKey(o, ContextKey) /\ o.keys # <<>>
  /\ prev # tree

-----------------------------------------------------------------------------
(* Graph client state machine: one call of getContentByPath or             *)
(* getPreviewContent, a step for each `await` of a request.                *)

InitClient ==
  /\ registry \in ClientRegistries
  /\ allContentTypes = <<>>
  /\ call = NoCall
  /\ result = NoResult
  /\ NormalizerIdle
  /\ ClientIdle
  /\ FilterIdle
  /\ SessionIdle

\* the call ends by throwing error
Throws(error) ==
  /\ outcome' = [ kind |-> "threw", value |-> Undefined, error |-> error ]
  /\ pc' = "done"

\* the call ends by returning v
ReturnsValue(v) ==
  /\ outcome' = [ kind |-> "returned", value |-> v, error |-> NoError ]
  /\ pc' = "done"

\* this.request(query, variables, previewToken) up to its `await fetch`
Send(query, variables, previewToken, next) ==
  /\ sent' = Append(sent, httpRequest(ApiKey, query, variables, previewToken))
  /\ pc' = next
  /\ outcome' = outcome

\* lines 348-353: getContentByPath up to the probe request
GetContentByPath ==
  \E path \in Paths, host \in Hosts, env \in Environments :
    /\ pc = "idle"
    /\ method' = [ NoMethod EXCEPT !.name = "getContentByPath", !.path = path, !.host = host,
                                   !.env = env.val, !.envDefined = env.defined ]
    /\ IF path = <<>> /\ ~env.defined
         THEN /\ Throws(ErrorOf("TypeError",
                                "Cannot read properties of undefined (reading 'endsWith')"))
              /\ sent' = sent
         ELSE Send(GET_CONTENT_METADATA_QUERY,
                   pathFilter(IF path = <<>> THEN env.val ELSE path, host), "", "probe")
    /\ UNCHANGED <<composerVars, normalizerVars, received, replies, metaData, filterVars, sessionVars>>

\* lines 433-437: getPreviewContent up to the probe request
GetPreviewContent ==
  \E p \in PreviewParams :
    /\ pc = "idle"
    /\ method' = [ NoMethod EXCEPT !.name = "getPreviewContent", !.params = p ]
    /\ Send(GET_CONTENT_METADATA_QUERY, previewFilter(p), p.preview_token, "probe")
    /\ UNCHANGED <<composerVars, normalizerVars, received, replies, metaData, filterVars, sessionVars>>

\* lines 359-360 and 445-446: the query is built and sent; r is what the
\* composition returned
QueryBuilt(op, contentTypeName, damEnabled, r) ==
  /\ Completed(op, contentTypeName, "", TRUE, damEnabled, r)
  /\ IF Aborted(r.st)
       THEN /\ Throws(ErrorOf("GraphMissingContentTypeError", r.st.err))
            /\ sent' = sent
       ELSE Send(ContentQuery(IF op = "createSingleContentQuery"
                                THEN createSingleContentQuery(r, contentTypeName)
                                ELSE createMultipleContentQuery(r, contentTypeName),
                              r.frags),
                 sent[1].variables, method.params.preview_token, "content")

\* lines 355-360 and 439-446: m is what getContentMetaData returned
MetaDataReturned(m) ==
  /\ metaData' = m
  /\ IF hasNoTypeName(m.contentTypeName)
       THEN /\ IF method.name = "getContentByPath"
                 THEN ReturnsValue(Arr(<<>>))
                 ELSE Throws([ ErrorOf("GraphResponseError",
                                       "No content found for key [" \o method.params.key \o "]")
                                 EXCEPT !.request = [ query |-> GET_CONTENT_METADATA_QUERY,
                                                      variables |-> sent[1].variables ] ])
            /\ sent' = sent
            /\ UNCHANGED composerVars
       ELSE /\ QueryBuilt(IF method.name = "getContentByPath"
                            THEN "createMultipleContentQuery"
                            ELSE "createSingleContentQuery",
                          m.contentTypeName.val, m.damEnabled,
                          composeRoot(registry, allContentTypes, m.contentTypeName.val, "",
                                      TRUE, m.damEnabled, DepthBudget(registry)))
            /\ UNCHANGED registry

\* m is the result of getContentMetaData: [threw, error, data]
MetaDataDone(m) ==
  IF m.threw
    THEN /\ Throws(m.error)
         /\ UNCHANGED <<sent, metaData, composerVars>>
    ELSE MetaDataReturned(m.data)

\* r is the result of the probe request: [threw, error, data]
ProbeDone(r) ==
  IF r.threw
    THEN /\ Throws(r.error)
         /\ UNCHANGED <<sent, metaData, composerVars>>
    ELSE MetaDataDone(metaDataResult(r.data, sent[1].variables))

\* the probe request settles: the rest of getContentMetaData and the caller
\* up to its next request or its end
ProbeResponse ==
  \E response \in ProbeResponses :
    /\ pc = "probe"
    /\ received' = Append(received, response)
    /\ replies' = Append(replies, requestResult(response, sent[1].query, sent[1].variables))
    /\ ProbeDone(requestResult(response, sent[1].query, sent[1].variables))
    /\ UNCHANGED <<method, normalizerVars, filterVars, sessionVars>>

\* r is the result of the content request: [threw, error, data]
ContentDone(r) ==
  IF r.threw THEN Throws(r.error)
  ELSE IF method.name = "getContentByPath"
    THEN IF itemsResult(r.data).threw
           THEN Throws(itemsResult(r.data).error)
           ELSE ReturnsValue(itemsResult(r.data).data)
    ELSE ReturnsValue(itemResult(r.data, method.params).data)

\* the content request settles: the rest of the method
ContentResponse ==
  \E response \in ContentResponses :
    /\ pc = "content"
    /\ received' = Append(received, response)
    /\ replies' = Append(replies, requestResult(response, sent[2].query, sent[2].variables))
    /\ ContentDone(requestResult(response, sent[2].query, sent[2].variables))
    /\ UNCHANGED <<method, sent, metaData, composerVars, normalizerVars, filterVars, sessionVars>>

\* lines 372-376 and 415-419: getPath or getItems up to its request
GetLinks(name, query) ==
  \E path \in Paths, host \in Hosts, env \in Environments, locales \in Locales :
    /\ pc = "idle"
    /\ method' = [ NoMethod EXCEPT !.name = name, !.path = path, !.host = host,
                                   !.env = env.val, !.envDefined = env.defined,
                                   !.locales = locales ]
    /\ IF pathFilterCall(path, host, env).threw
         THEN /\ Throws(ErrorOf("TypeError",
                                "Cannot read properties of undefined (reading 'endsWith')"))
              /\ sent' = sent
         ELSE Send(query, localeFilter(pathFilterCall(path, host, env).filter, locales),
                   "", "links")
    /\ UNCHANGED <<composerVars, normalizerVars, received, replies, metaData, filterVars, sessionVars>>

GetPath == GetLinks("getPath", GET_PATH_QUERY)

GetItems == GetLinks("getItems", GET_ITEMS_QUERY)

\* r is the result of the links request: [threw, error, data]
LinksDone(r) ==
  IF r.threw THEN Throws(r.error)
  ELSE IF method.name = "getPath"
    THEN IF pathResult(r.data, sent[1].variables).threw
           THEN Throws(pathResult(r.data, sent[1].variables).error)
           ELSE ReturnsValue(pathResult(r.data, sent[1].variables).data)
    ELSE IF childItemsResult(r.data).threw
           THEN Throws(childItemsResult(r.data).error)
           ELSE ReturnsValue(childItemsResult(r.data).data)

\* the links request settles: the rest of getPath or getItems
LinksResponse ==
  \E response \in LinksResponses :
    /\ pc = "links"
    /\ received' = Append(received, response)
    /\ replies' = Append(replies, requestResult(response, sent[1].query, sent[1].variables))
    /\ LinksDone(requestResult(response, sent[1].query, sent[1].variables))
    /\ UNCHANGED <<method, sent, metaData, composerVars, normalizerVars, filterVars, sessionVars>>

NextClient ==
  \/ GetContentByPath
  \/ GetPreviewContent
  \/ ProbeResponse
  \/ ContentResponse
  \/ GetPath
  \/ GetItems
  \/ LinksResponse

SpecClient == InitClient /\ [][NextClient]_vars

-----------------------------------------------------------------------------
(* Claims on the Graph client                                              *)

\* the value at the end of a path of field names, undefined when a field on
\* the way is missing or null
RECURSIVE At(_, _)
At(v, path) ==
  IF path = <<>> THEN v
  ELSE IF v.tag = "obj" /\ \E i \in 1..Len(v.keys) : v.keys[i] = <<Head(path)>>
    THEN At(v.items[CHOOSE i \in 1..Len(v.keys) : v.keys[i] = <<Head(path)>>], Tail(path))
  ELSE Undefined

\* the outcome of fetch is a 2xx response with a JSON body that has data
HasData(response) ==
  /\ response.fetch = "response"
  /\ response.ok
  /\ response.readable
  /\ response.parses
  /\ At(response.json, <<"data">>).tag \notin {"null", "undefined"}

\* the first of the types the probe response names, undefined when none
ProbedType(response) ==
  LET types == At(response.json, <<"data", "_Content", "item", "_metadata", "types">>)
  IN IF types.tag = "arr" /\ types.items # <<>> THEN types.items[1] ELSE Undefined

\* the probe of getContentByPath succeeded and named no content type
ProbeFoundNothing ==
  /\ method.name = "getContentByPath"
  /\ Len(received) >= 1
  /\ HasData(received[1])
  /\ ProbedType(received[1]) \in { Undefined, Null, Str("") }

\* C10: when the probe of getContentByPath succeeds and resolves to no
\* content type name, the call returns the empty list, throws nothing, and
\* the probe is the only request sent.
C10_EmptyListWhenNothingFound ==
  ProbeFoundNothing =>
    /\ pc = "done"
    /\ outcome = [ kind |-> "returned", value |-> Arr(<<>>), error |-> NoError ]
    /\ Len(sent) = 1
    /\ sent[1].query = GET_CONTENT_METADATA_QUERY
    /\ call = NoCall

\* the probe named an empty type name on a DAM-enabled instance, for a path
\* with a host filter
C10_Witness ==
  /\ ProbeFoundNothing
  /\ ProbedType(received[1]) = Str("")
  /\ metaData.damEnabled
  /\ method.host # ""
  /\ outcome.kind = "returned"

\* the items of the response to the content query of getContentByPath
ResponseItems == At(received[2].json, <<"data", "_Content", "items">>)

\* C11 as stated: a run of getContentByPath that does not throw returns a
\* list: the empty list when the probe found nothing, otherwise one
\* alias-stripped item per item of the response, in response order,
\* whatever the 2xx body of the response.
C11_ReturnsList ==
  (method.name = "getContentByPath" /\ outcome.kind = "returned") =>
    /\ outcome.value.tag = "arr"
    /\ Len(received) = 1 => outcome.value = Arr(<<>>)
    /\ Len(received) = 2 =>
         /\ Len(outcome.value.items) = Len(ResponseItems.items)
         /\ \A i \in 1..Len(ResponseItems.items) :
              Stripped(ResponseItems.items[i], outcome.value.items[i])

\* the item of the response to the content query of getPreviewContent
ResponseItem == At(received[2].json, <<"data", "_Content", "item">>)

\* the probe of getPreviewContent succeeded and named no content type
PreviewFoundNothing ==
  /\ method.name = "getPreviewContent"
  /\ Len(received) >= 1
  /\ HasData(received[1])
  /\ ProbedType(received[1]) \in { Undefined, Null, Str("") }

\* C12 as stated: getPreviewContent never returns null, undefined or an
\* empty result; when the probe resolves to no content type it throws a
\* GraphResponseError naming the key and sends no content query; a run that
\* returns normally returns the single alias-stripped item, decorated with
\* the preview context.
C12_PreviewNeverEmpty ==
  method.name = "getPreviewContent" =>
    /\ outcome.kind = "returned" =>
         /\ outcome.value.tag = "obj"
         /\ \E stripped \in {removeTypePrefix(ResponseItem)} :
              /\ Stripped(ResponseItem, stripped)
              /\ Decorated(stripped, outcome.value, method.params)
              /\ AllContexts(outcome.value, method.params)
    /\ PreviewFoundNothing =>
         /\ outcome.kind = "threw"
         /\ outcome.error.kind = "GraphResponseError"
         /\ outcome.error.message = "No content found for key [" \o method.params.key \o "]"
         /\ Len(sent) = 1

-----------------------------------------------------------------------------
(* Path filter state machine: pathFilter is called for a path, and then for *)
(* the same lookup written under the other trailing-slash convention.       *)

MaxPathLen == 3

MaxFilterCalls == 3

PathChars == { "/", "a" }

RECURSIVE PathsUpTo(_)
PathsUpTo(n) ==
  IF n = 0 THEN { <<>> }
  ELSE PathsUpTo(n - 1) \cup { Append(p, c) : p \in PathsUpTo(n - 1), c \in PathChars }

FilterPaths == PathsUpTo(MaxPathLen)

\* the paths that differ from `path` by one trailing slash
SlashToggled(path) ==
  { Append(path, "/") } \cup
  (IF endsWithSlash(path) THEN { SubSeq(path, 1, Len(path) - 1) } ELSE {})

FilterCall(path, host, env) ==
  [ path |-> path, host |-> host, env |-> env, result |-> pathFilterCall(path, host, env) ]

InitFilter ==
  /\ registry = <<>>
  /\ allContentTypes = <<>>
  /\ call = NoCall
  /\ result = NoResult
  /\ NormalizerIdle
  /\ ClientIdle
  /\ FilterIdle
  /\ SessionIdle

\* filters.ts lines 30-56, first call
PathFilter ==
  \E path \in FilterPaths, host \in Hosts, env \in Environments :
    /\ filterCalls = <<>>
    /\ filterCalls' = <<FilterCall(path, host, env)>>
    /\ UNCHANGED <<composerVars, normalizerVars, clientVars, sessionVars>>

\* filters.ts lines 30-56, the same host and environment, the path with one
\* trailing slash added or removed
PathFilterOtherConvention ==
  /\ filterCalls # <<>>
  /\ Len(filterCalls) < MaxFilterCalls
  /\ \E path \in SlashToggled(filterCalls[Len(filterCalls)].path) :
       filterCalls' = Append(filterCalls,
                             FilterCall(path, filterCalls[1].host, filterCalls[1].env))
  /\ UNCHANGED <<composerVars, normalizerVars, clientVars, sessionVars>>

NextFilter ==
  \/ PathFilter
  \/ PathFilterOtherConvention

SpecFilter == InitFilter /\ [][NextFilter]_vars

-----------------------------------------------------------------------------
(* Claims on the path filter                                                *)

\* the filter the two conventions of one path are to share: an _or of the
\* form with trailing slash and the form without it, each scoped to the host
BothConventions(without, host) ==
  [ NoFilter EXCEPT !.kind = "path",
                    !.clauses = << urlClause(Append(without, "/"), host),
                                   urlClause(without, host) >> ]

\* the form without trailing slash of two paths that differ by one trailing slash
Shorter(p, q) == IF Len(p) < Len(q) THEN p ELSE q

DifferBySlash(p, q) ==
  \/ q = Append(p, "/")
  \/ p = Append(q, "/")

SameFilter(c, d) ==
  /\ ~c.result.threw
  /\ ~d.result.threw
  /\ c.result.filter = d.result.filter
  /\ c.result.filter = BothConventions(Shorter(c.path, d.path), c.host)

\* C13 as stated: for every path p and host h, pathFilter(p, h) and
\* pathFilter(p', h), p' being p with one trailing slash added or removed,
\* produce the same filter, the _or of the form with trailing slash and the
\* form without it, scoped to h.
C13_Original ==
  \A i \in 1..Len(filterCalls), j \in 1..Len(filterCalls) :
    (i < j /\ DifferBySlash(filterCalls[i].path, filterCalls[j].path)) =>
      SameFilter(filterCalls[i], filterCalls[j])

\* a path that is not empty and does not itself end with a slash
PlainPath(p) == p # <<>> /\ ~endsWithSlash(p)

\* C13 amended: for every non-empty path q that does not end with a slash
\* and every host h, pathFilter(q, h) and pathFilter(q + "/", h) produce the
\* same filter, the _or of q + "/" and q, each scoped to h.
C13_SlashSymmetry ==
  \A i \in 1..Len(filterCalls), j \in 1..Len(filterCalls) :
    ( /\ i < j
      /\ DifferBySlash(filterCalls[i].path, filterCalls[j].path)
      /\ PlainPath(Shorter(filterCalls[i].path, filterCalls[j].path)) ) =>
      SameFilter(filterCalls[i], filterCalls[j])

C13_Witness ==
  /\ Len(filterCalls) = 2
  /\ filterCalls[1].path = <<"/", "a">>
  /\ filterCalls[2].path = <<"/", "a", "/">>
  /\ filterCalls[1].host = "example.com"
  /\ filterCalls[2].result.filter.clauses[1].default = <<"/", "a", "/">>

\* the non-2xx body is JSON and carries a GraphQL errors array
CarriesErrors(response) ==
  /\ response.readable
  /\ response.parses
  /\ member(response.json, "errors").tag = "arr"

\* the non-2xx body is JSON and has no errors entry
WithoutErrors(response) ==
  /\ response.readable
  /\ response.parses
  /\ ~(response.json.tag = "obj" /\ HasKey(response.json, <<"errors">>))

RequestErrorKinds ==
  { "OptimizelyGraphError", "GraphContentResponseError", "GraphHttpResponseError" }

\* C14: GraphClient.request classifies every non-2xx response into exactly
\* one error: a JSON body carrying errors throws GraphContentResponseError
\* with those errors, a JSON body without errors throws
\* GraphHttpResponseError, a body that is not JSON throws
\* GraphHttpResponseError with the raw text; a 2xx response throws none of
\* these and returns the data field of its JSON body.
C14_ResponsesClassified ==
  \A i \in 1..Len(replies) :
    received[i].fetch = "response" =>
      IF ~received[i].ok
        THEN /\ replies[i].threw
             /\ CarriesErrors(received[i]) =>
                  /\ replies[i].error.kind = "GraphContentResponseError"
                  /\ replies[i].error.errors = member(received[i].json, "errors")
             /\ WithoutErrors(received[i]) =>
                  replies[i].error.kind = "GraphHttpResponseError"
             /\ (received[i].readable /\ ~received[i].parses) =>
                  /\ replies[i].error.kind = "GraphHttpResponseError"
                  /\ replies[i].error.message = received[i].text
        ELSE /\ replies[i].threw => replies[i].error.kind \notin RequestErrorKinds
             /\ (received[i].parses /\ received[i].json.tag = "obj") =>
                  /\ ~replies[i].threw
                  /\ replies[i].data = member(received[i].json, "data")

\* C15: every error thrown by GraphClient.request (the network failure
\* wrapped as OptimizelyGraphError, the content response error, the HTTP
\* response error) carries the query and the variables of the failed request.
C15_ErrorsCarryRequest ==
  \A i \in 1..Len(replies) :
    (replies[i].threw /\ replies[i].error.kind \in RequestErrorKinds) =>
      replies[i].error.request = [ query |-> sent[i].query, variables |-> sent[i].variables ]

\* the error kinds of the SDK: registry, network, HTTP, GraphQL content, shape
SdkErrorKinds ==
  { "GraphMissingContentTypeError", "OptimizelyGraphError", "GraphHttpResponseError",
    "GraphContentResponseError", "GraphResponseError" }

\* C16: every run of a client method ends by returning a result or by
\* throwing one of the SDK's error kinds; no lower-level error (a raw
\* TypeError, SyntaxError or transport error) escapes unwrapped.
C16_OnlySdkErrors ==
  (pc = "done" /\ outcome.kind = "threw") => outcome.error.kind \in SdkErrorKinds

-----------------------------------------------------------------------------
(* Session state machine: registrations of content types interleaved with  *)
(* compositions and query builds, all sharing the module's cache.          *)

MaxCalls == 4

\* the registries a session registers, one after another
SessionRegistries ==
  { << ContentType("A", "_page", <<Content("main", <<>>, <<>>)>>, <<>>),
       ContentType("B", "_component", <<Prop("text", "string")>>, <<"elementEnabled">>) >>,
    << ContentType("A", "_page", <<Content("main", <<>>, <<>>)>>, <<>>),
       ContentType("B", "_component", <<Disabled(Prop("text", "string"))>>, <<>>) >>,
    << ContentType("A", "_experience", <<Prop("title", "string")>>, <<>>) >> }

SessionKeys == { "A", "B" }

Registration(reg) ==
  [ op |-> "initContentTypeRegistry", contentType |-> "", suffix |-> "",
    includeBase |-> FALSE, damEnabled |-> FALSE, registry |-> reg, cache |-> <<>>,
    frags |-> <<>>, err |-> "" ]

\* r is what the composition returned
Build(op, T, suffix, includeBase, damEnabled, r) ==
  [ op |-> op, contentType |-> T, suffix |-> suffix, includeBase |-> includeBase,
    damEnabled |-> damEnabled, registry |-> registry, cache |-> r.st.cache,
    frags |-> r.frags, err |-> r.st.err ]

InitSession ==
  /\ registry \in SessionRegistries
  /\ allContentTypes = <<>>
  /\ call = NoCall
  /\ result = NoResult
  /\ NormalizerIdle
  /\ ClientIdle
  /\ FilterIdle
  /\ SessionIdle

\* initContentTypeRegistry(reg): the registered list is replaced; the cache
\* of createQuery.ts is not touched
InitContentTypeRegistry ==
  \E reg \in SessionRegistries :
    /\ Len(history) < MaxCalls
    /\ registry' = reg
    /\ history' = Append(history, Registration(reg))
    /\ UNCHANGED <<allContentTypes, call, result, normalizerVars, clientVars, filterVars>>

SessionCompleted(op, T, suffix, includeBase, damEnabled, r) ==
  /\ Completed(op, T, suffix, includeBase, damEnabled, r)
  /\ history' = Append(history, Build(op, T, suffix, includeBase, damEnabled, r))
  /\ UNCHANGED <<registry, normalizerVars, clientVars, filterVars>>

\* createFragment(T, new Set(), '', true, damEnabled)
SessionCreateFragment ==
  \E T \in SessionKeys, damEnabled \in BOOLEAN :
    /\ Len(history) < MaxCalls
    /\ SessionCompleted("createFragment", T, "", TRUE, damEnabled,
                        composeRoot(registry, allContentTypes, T, "", TRUE, damEnabled,
                                    DepthBudget(registry)))

SessionCreateSingleContentQuery ==
  \E T \in SessionKeys :
    /\ Len(history) < MaxCalls
    /\ SessionCompleted("createSingleContentQuery", T, "", TRUE, FALSE,
                        composeRoot(registry, allContentTypes, T, "", TRUE, FALSE,
                                    DepthBudget(registry)))

SessionCreateMultipleContentQuery ==
  \E T \in SessionKeys :
    /\ Len(history) < MaxCalls
    /\ SessionCompleted("createMultipleContentQuery", T, "", TRUE, FALSE,
                        composeRoot(registry, allContentTypes, T, "", TRUE, FALSE,
                                    DepthBudget(registry)))

NextSession ==
  \/ InitContentTypeRegistry
  \/ SessionCreateFragment
  \/ SessionCreateSingleContentQuery
  \/ SessionCreateMultipleContentQuery

SpecSession == InitSession /\ [][NextSession]_vars

-----------------------------------------------------------------------------
(* Claims on sessions                                                      *)

QueryBuilds == { "createSingleContentQuery", "createMultipleContentQuery" }

\* what the build of entry e gives when nothing was cached before it
FromScratch(e) ==
  composeRoot(e.registry, <<>>, e.contentType, e.suffix, e.includeBase, e.damEnabled,
              DepthBudget(e.registry))

\* C17: after any sequence of registrations interleaved with query builds,
\* each build reads the content-type list of the registry as it is at the
\* start of that build: the cached list is the list of the current registry
\* and the build gives what it gives with no cache left from earlier.
C17_ReadAfterRegister ==
  \A i \in 1..Len(history) :
    history[i].op \in QueryBuilds =>
      /\ history[i].cache = getAllContentTypes(history[i].registry)
      /\ history[i].frags = FromScratch(history[i]).frags
      /\ history[i].err = FromScratch(history[i]).st.err

\* a query build that follows a registration of another registry, itself
\* made after a build had filled the cache
C17_Witness ==
  \E i, j, k \in 1..Len(history) :
    /\ i < j /\ j < k
    /\ history[i].op \in QueryBuilds
    /\ history[j].op = "initContentTypeRegistry"
    /\ history[j].registry # history[i].registry
    /\ history[k].op \in QueryBuilds
    /\ history[k].contentType = "A"
    /\ history[k].frags # history[i].frags
    /\ history[k].err = ""

SameArguments(e, f) ==
  /\ e.op = f.op
  /\ e.contentType = f.contentType
  /\ e.suffix = f.suffix
  /\ e.includeBase = f.includeBase
  /\ e.damEnabled = f.damEnabled

NoRegistrationBetween(i, j) ==
  \A k \in i..j : history[k].op # "initContentTypeRegistry"

\* C18: with an unchanged registry, two calls of createFragment with a
\* fresh visited set and equal arguments return the same set of fragments
\* (and fail alike), whatever compositions or query builds ran in between.
C18_Deterministic ==
  \A i \in 1..Len(history), j \in 1..Len(history) :
    ( /\ i < j
      /\ history[i].op = "createFragment"
      /\ SameArguments(history[i], history[j])
      /\ NoRegistrationBetween(i, j) ) =>
      /\ Range(history[i].frags) = Range(history[j].frags)
      /\ history[i].err = history[j].err

\* the same composition twice, another build in between, after a registration
C18_Witness ==
  \E h, i, j \in 1..Len(history) :
    /\ h < i /\ i + 1 < j
    /\ history[h].op = "initContentTypeRegistry"
    /\ history[i].op = "createFragment"
    /\ SameArguments(history[i], history[j])
    /\ NoRegistrationBetween(i, j)
    /\ history[i].frags # <<>>

-----------------------------------------------------------------------------
(* Claims on the spreads of content properties, checked on the composer     *)
(* state machine                                                            *)

\* the selections generated for content properties of registered types
ContentFields ==
  { f \in UNION { FieldsOf(frag) : frag \in Range(result.frags) } :
      /\ f.kind = "content"
      /\ \E k \in RegisteredKeys(registry) : f.owner \in { k, k \o "Property" } }

\* the key of the type that owns the property of a selection
OwnerKey(f) == CHOOSE k \in RegisteredKeys(registry) : f.owner \in { k, k \o "Property" }

\* the content property (the item of an array of them) a selection is for
PropertyOf(f) ==
  Unwrap(CHOOSE p \in PropsOf(TypeOf(registry, OwnerKey(f)), FALSE) : p.name = f.prop)

Position(list, x) == CHOOSE i \in 1..Len(list) : list[i] = x

\* the CMS base types that are not structural
MediaBaseTypes == UnderscoreKeys \ (MAIN_BASE_TYPES \cup {"_self"})

Extending(b) == { c.key : c \in { d \in Range(registry) : d.baseType = b } }

\* u is listed before the entry b, with nothing but types extending b between
ImmediatelyBefore(spreads, u, b) ==
  /\ u \in Range(spreads)
  /\ Position(spreads, u) < Position(spreads, b)
  /\ \A i \in (Position(spreads, u) + 1)..(Position(spreads, b) - 1) :
       spreads[i] \in Extending(b)

\* C19 as stated: with no explicit allow-list a user-defined type extending
\* a base media type is listed before the base type's own fragment; with an
\* explicit allow-list containing a base type, every registered type
\* extending that base type is listed immediately before the base entry.
C19_Original ==
  Returned =>
    \A f \in ContentFields : \A b \in MediaBaseTypes : \A u \in Extending(b) :
      /\ (PropertyOf(f).allowedTypes = <<>> /\ b \in Range(f.spreads)) =>
           /\ u \in Range(f.spreads)
           /\ Position(f.spreads, u) < Position(f.spreads, b)
      /\ (b \in Range(PropertyOf(f).allowedTypes) /\ b \in Range(f.spreads)) =>
           ImmediatelyBefore(f.spreads, u, b)

\* the restrict list with the user types extending a restricted base type
Restricted(p) ==
  Range(p.restrictedTypes) \cup UNION { Extending(b) : b \in Range(p.restrictedTypes) }

AllDisabled(key) ==
  /\ key \in RegisteredKeys(registry)
  /\ TypeOf(registry, key).properties # <<>>
  /\ \A q \in Range(TypeOf(registry, key).properties) : q.indexingType = "disabled"

\* the types resolveAllowedTypes removes from consideration
Excluded(p, key) ==
  key \in Restricted(p) \/ AllDisabled(key) \/ key \in MAIN_BASE_TYPES

\* the registered keys that are not excluded, in registration order
DefaultSpreads(p) ==
  LET kept == SelectSeq(registry, LAMBDA c : ~ Excluded(p, c.key))
  IN [ i \in 1..Len(kept) |-> kept[i].key ]

\* the allow list names u (or the owner, as '_self') before its entry b
NamedBefore(f, u, b) ==
  \E i \in 1..(Position(PropertyOf(f).allowedTypes, b) - 1) :
    selfKey(PropertyOf(f).allowedTypes[i], OwnerKey(f)) = u

\* C19 amended: with no explicit allow-list the spreads are the registered
\* types that are not excluded (restrict list, all properties disabled,
\* structural base types), in registration order, and no base type is
\* spread.  With an explicit allow-list containing a base media type that
\* is not restricted, every registered type extending it that is not
\* excluded is listed before the base entry: immediately before it, unless
\* the allow list names that type earlier.
C19_MediaOverrideOrder ==
  Returned =>
    \A f \in ContentFields :
      /\ PropertyOf(f).allowedTypes = <<>> => f.spreads = DefaultSpreads(PropertyOf(f))
      /\ \A b \in MediaBaseTypes \cap Range(PropertyOf(f).allowedTypes) :
           b \in Range(f.spreads) =>
             \A u \in Extending(b) :
               ~ Excluded(PropertyOf(f), u) =>
                 /\ u \in Range(f.spreads)
                 /\ Position(f.spreads, u) < Position(f.spreads, b)
                 /\ NamedBefore(f, u, b) \/ ImmediatelyBefore(f.spreads, u, b)

\* an allow list with the base image type, a registered image type spread
\* right before it
C19_Witness ==
  /\ Returned
  /\ \E f \in ContentFields :
       /\ "_image" \in Range(PropertyOf(f).allowedTypes)
       /\ "_image" \in Range(f.spreads)
       /\ \E u \in Extending("_image") :
            /\ ~ AllDisabled(u)
            /\ Position(f.spreads, u) + 1 = Position(f.spreads, "_image")

\* C20: the selection of a content property contains no spread of a type on
\* its restrict list (also when the allow list names it or it is reached as
\* '_self'), of a user type extending a restricted base type, of a type whose
\* properties are all disabled, or of a structural base type.
C20_NoExcludedSpread ==
  Returned =>
    \A f \in ContentFields : \A s \in Range(f.spreads) : ~ Excluded(PropertyOf(f), s)

-----------------------------------------------------------------------------
(* Claims on unknown content types, checked on the composer state machine   *)

\* the keys composition reaches from the root that are neither registered
\* nor base types
MissingKeys ==
  { n.key : n \in { m \in Reach(registry, Root, Composed) :
                      m.key \notin RegisteredKeys(registry) /\ ~ isBaseType(m.key) } }

\* C21: when composition reaches a non-base key that is not registered (as
\* root, as the type of a component property or as an allowed type of a
\* content property), createFragment and both query builders throw
\* GraphMissingContentTypeError naming that key and return no fragment list
\* and no query; when it reaches none, they do not throw it.
C21_MissingTypeIsFatal ==
  Called =>
    IF MissingKeys # {}
      THEN /\ result.err \in MissingKeys
           /\ result.frags = <<>>
           /\ result.shell = NoShell
      ELSE result.err = ""

\* a query build whose root is registered and refers, through a component
\* property or an allow list, to a key that is not
C21_Witness ==
  /\ Called
  /\ call.op \in { "createSingleContentQuery", "createMultipleContentQuery" }
  /\ call.contentType \in RegisteredKeys(registry)
  /\ result.err \in MissingKeys
  /\ result.err # call.contentType
  /\ result.frags = <<>>

\* C22: every request of getPreviewContent (the probe and the content
\* query) carries the preview token as bearer Authorization and not the API
\* key in the URL, for every PreviewParams value; every request of
\* getContentByPath, getPath and getItems carries the API key as the auth
\* parameter and no bearer token.
C22_PreviewUsesBearerToken ==
  \A i \in 1..Len(sent) :
    IF method.name = "getPreviewContent"
      THEN /\ sent[i].authorization = "Bearer " \o method.params.preview_token
           /\ sent[i].auth = ""
      ELSE /\ sent[i].auth = ApiKey
           /\ sent[i].authorization = ""

LinkMethods == { "getPath", "getItems" }

\* getPath or getItems ended after its request returned data
LinksAnswered ==
  /\ method.name \in LinkMethods
  /\ pc = "done"
  /\ Len(replies) = 1
  /\ ~ replies[1].threw

\* the item of the links response
AnsweredItem == At(replies[1].data, <<"_Content", "item">>)

AnsweredLinks == At(AnsweredItem, <<"_link", "_Page", "items">>)

AnsweredKeys == At(AnsweredItem, <<"_metadata", "path">>)

\* the response has an item object
ItemAnswered == LinksAnswered /\ AnsweredItem.tag = "obj"

RootMissing == ItemAnswered /\ isFalsy(At(AnsweredItem, <<"_id">>))

\* the root exists and the response has the shape the query selects: a
\* _metadata object and a list of link objects
RootFound ==
  /\ ItemAnswered
  /\ ~ isFalsy(At(AnsweredItem, <<"_id">>))
  /\ At(AnsweredItem, <<"_metadata">>).tag = "obj"
  /\ AnsweredLinks.tag = "arr"
  /\ \A i \in 1..Len(AnsweredLinks.items) : AnsweredLinks.items[i].tag = "obj"

KeyOfLink(link) == At(link, <<"_metadata", "key">>)

\* the keys of the ordering that have a link in the response, in order
KeysPresent ==
  SelectSeq(AnsweredKeys.items,
            LAMBDA k : \E i \in 1..Len(AnsweredLinks.items) : KeyOfLink(AnsweredLinks.items[i]) = k)

\* one link per ordering key that has one (the last of that key), in the
\* order of the keys
OrderedByKey ==
  [ n \in 1..Len(KeysPresent) |->
      AnsweredLinks.items[
        CHOOSE i \in 1..Len(AnsweredLinks.items) :
          /\ KeyOfLink(AnsweredLinks.items[i]) = KeysPresent[n]
          /\ \A j \in (i + 1)..Len(AnsweredLinks.items) :
               KeyOfLink(AnsweredLinks.items[j]) # KeysPresent[n] ] ]

ContentMethods == { "getContentByPath", "getPreviewContent" }

\* the request did not give a 2xx response with a JSON body
Failed(response) ==
  response.fetch # "response" \/ ~ response.ok \/ ~ response.readable \/ ~ response.parses

\* the probe was answered with data naming a string content type
ProbeNamedType ==
  /\ Len(received) >= 1
  /\ HasData(received[1])
  /\ ProbedType(received[1]).tag = "str"
  /\ ProbedType(received[1]).val # ""

\* C24: in every run of getContentByPath and getPreviewContent the
\* requests follow the order probe, then content query: the content query
\* is sent, and a query built, only after the probe returned a string
\* content-type name; at most one probe and one content query are sent, each
\* after the answer to the one before; no request is sent after a failure;
\* after an error of the probe no query is built.
C24_ProbeThenQuery ==
  method.name \in ContentMethods =>
    /\ Len(sent) <= 2
    /\ Len(received) <= Len(sent)
    /\ Len(sent) <= Len(received) + 1
    /\ Len(sent) >= 1 => sent[1].query = GET_CONTENT_METADATA_QUERY
    /\ Len(sent) = 2 =>
         /\ sent[2].query.name = "content"
         /\ sent[2].variables = sent[1].variables
    /\ (Len(sent) = 2 \/ call.op # "none") => ProbeNamedType
    /\ \A i \in 1..Len(received) :
         Failed(received[i]) =>
           /\ Len(sent) = i
           /\ pc = "done"
           /\ outcome.kind = "threw"
    /\ (Len(received) >= 1 /\ ~ HasData(received[1])) =>
         /\ call.op = "none"
         /\ Len(sent) = 1
         /\ outcome.kind = "threw"

\* a run in which the probe named a type and the content query failed
C24_Witness ==
  /\ method.name \in ContentMethods
  /\ ProbeNamedType
  /\ Len(sent) = 2
  /\ Len(received) = 2
  /\ Failed(received[2])
  /\ pc = "done"

-----------------------------------------------------------------------------
(* Claims on the shared component fragment                                 *)

\* the registered types flagged as usable as an element or as a section
FlaggedKeys(reg) ==
  { c.key : c \in { d \in Range(reg) : Len(d.compositionBehaviors) > 0 } }

\* the call returned fragments for a registered experience type
ExperienceRoot ==
  /\ Returned
  /\ call.contentType \in RegisteredKeys(registry)
  /\ TypeOf(registry, call.contentType).baseType = "_experience"

\* the fragment names a fragment spreads by fields that are a bare spread
SpreadList(frag) ==
  [ i \in 1..Len(SelectSeq(frag.fields, LAMBDA f : f.kind = "spread")) |->
      SelectSeq(frag.fields, LAMBDA f : f.kind = "spread")[i].spreads[1] ]

\* the fragments of the output that spread _IExperience
ExperienceFragments ==
  { i \in 1..Len(result.frags) :
      \E f \in FieldsOf(result.frags[i]) : f.kind = "spread" /\ f.spreads = <<"_IExperience">> }

-----------------------------------------------------------------------------
(* Claims on the selection of a content property                           *)

\* how often a name occurs in a list
Occurrences(list, x) == Cardinality({ i \in 1..Len(list) : list[i] = x })

\* the types a content property allows, '_self' read as the owner of the property
AllowedKeys(f) ==
  { IF a = "_self" THEN OwnerKey(f) ELSE a :
      a \in Range(resolveAllowedTypes(registry, registry, PropertyOf(f).allowedTypes,
                                      PropertyOf(f).restrictedTypes)) }

\* the property names its owner: as '_self', or by a key that is not restricted
AllowsItself(f) ==
  \/ "_self" \in Range(PropertyOf(f).allowedTypes)
  \/ /\ OwnerKey(f) \in Range(PropertyOf(f).allowedTypes)
     /\ OwnerKey(f) \notin Range(PropertyOf(f).restrictedTypes)

\* C26: the selection of a content property (a field of kind "content", whose
\* text is '__typename' followed by its spreads) has one spread per allowed
\* type and none twice; '_self' stands for the key of the type owning the
\* property; a type that allows itself by '_self', by its own key or by both
\* has the spread of its own fragment exactly once in the selection and
\* exactly one fragment of that name in the output.
C26_ContentSelection ==
  Returned =>
    \A f \in ContentFields :
      /\ Range(f.spreads) = AllowedKeys(f)
      /\ \A x \in Range(f.spreads) : Occurrences(f.spreads, x) = 1
      /\ "_self" \notin Range(f.spreads)
      /\ AllowsItself(f) =>
           /\ Occurrences(f.spreads, OwnerKey(f)) = 1
           /\ Cardinality(DefinitionsOf(OwnerKey(f))) = 1

\* the output has the selection of a property that allows its owner both as
\* '_self' and by key
C26_Witness ==
  /\ Returned
  /\ \E f \in ContentFields :
       /\ {"_self", OwnerKey(f)} \subseteq Range(PropertyOf(f).allowedTypes)
       /\ Occurrences(f.spreads, OwnerKey(f)) = 1

-----------------------------------------------------------------------------
(* Claims on what the normalizer does to its argument                      *)

\* the objects and arrays of a value
RECURSIVE CellsOf(_, _)
CellsOf(cells, x) ==
  IF IsRef(x)
    THEN {Addr(x)} \cup UNION { CellsOf(cells, cells[Addr(x)].items[i]) :
                                  i \in 1..Len(cells[Addr(x)].items) }
    ELSE {}

\* the objects and arrays that existed before the call are as they were
Untouched == \A a \in 1..Len(heap.before) : heap.cells[a] = heap.before[a]

\* C27: removeTypePrefix leaves its argument unchanged: every object and array
\* of the input tree has the same keys and values after the call as before,
\* and every object and array of the result is a new one that the input tree
\* does not contain; the value returned is the one the function computes.
C27_ArgumentUntouched ==
  LastStep = "removeTypePrefix" =>
    /\ Untouched
    /\ Read(heap.cells, heap.arg) = prev
    /\ Read(heap.cells, heap.ret) = value
    /\ CellsOf(heap.cells, heap.ret) \cap CellsOf(heap.before, heap.arg) = {}
    /\ \A a \in CellsOf(heap.cells, heap.ret) : a > Len(heap.before)

\* removeTypePrefix was given a tree with an object inside an array or an
\* object, and returned objects of its own
C27_Witness ==
  /\ steps = <<"removeTypePrefix">>
  /\ Cardinality(CellsOf(heap.before, heap.arg)) >= 2
  /\ Cardinality(CellsOf(heap.cells, heap.ret)) >= 2
  /\ value # prev

-----------------------------------------------------------------------------
(* Claims on the DAM flag of the probe                                     *)

\* the probe response reports that the type cmp_Asset exists
ProbeReportsAsset == At(received[1].json, <<"data", "damAssetType">>).tag = "obj"

\* the fragments of the content query sent that belong to the DAM library
DamFragmentsSent ==
  { i \in 1..Len(sent[2].query.frags) : sent[2].query.frags[i].name \in DamNames }

\* C28: the content query of getContentByPath and getPreviewContent is
\* generated with damEnabled = true exactly when the probe reports that the
\* type cmp_Asset exists; when the probe reports no such type (damAssetType
\* null or absent) the query sent contains no DAM fragment.
C28_DamFlagFromProbe ==
  (method.name \in ContentMethods /\ Len(sent) = 2) =>
    /\ call.damEnabled = ProbeReportsAsset
    /\ ~ ProbeReportsAsset => DamFragmentsSent = {}

-----------------------------------------------------------------------------
(* Claims on the documents of the query builders                           *)

QueryBuilders == { "createSingleContentQuery", "createMultipleContentQuery" }

\* a query builder returned a document
DocumentReturned == call.op \in QueryBuilders /\ Returned

\* every fragment name spread in a fragment body of the document
SpreadsOfFragments ==
  UNION { Range(f.spreads) : f \in UNION { FieldsOf(frag) : frag \in Range(result.frags) } }

\* C29: every document returned by createSingleContentQuery or
\* createMultipleContentQuery is closed: each fragment spread occurring in a
\* fragment body or in the query shell has a fragment definition in the same
\* document; this includes the spreads of fragments skipped by the cycle
\* guard, the root spread of the shell, _IContent, ContentUrl,
\* ContentReferenceItem and the spreads of _IComponent.
C29_DocumentClosed ==
  DocumentReturned =>
    /\ SpreadsOfFragments \subseteq FragmentNames
    /\ result.shell.spreads = <<call.contentType>>
    /\ Range(result.shell.spreads) \subseteq FragmentNames

\* a document with a property that spreads the root fragment again, the
\* experience fragments and the DAM fragments
C29_Witness ==
  /\ DocumentReturned
  /\ \E f \in ContentFields : call.contentType \in Range(f.spreads)
  /\ {"_IComponent", "_IContent", "ContentUrl", "ContentReferenceItem"} \subseteq SpreadsOfFragments

-----------------------------------------------------------------------------
(* Claims on the agreement of query generation and response normalization  *)

\* the fragments generated for registered types, top-level or 'Property'-suffixed
UserFragments ==
  { frag \in Range(result.frags) :
      \E k \in RegisteredKeys(registry) : frag.name \in { k, k \o "Property" } }

\* the key of the type a fragment was generated for
TypeKeyOf(frag) ==
  CHOOSE k \in RegisteredKeys(registry) : frag.name \in { k, k \o "Property" }

\* the fields written as 'alias:name'; a contentReference is written by its name
Aliased(f) == f.kind # "contentReference"

\* the key of the response under which the value of a field arrives
ResponseKey(f) == IF Aliased(f) THEN <<f.owner, f.prop>> ELSE <<f.prop>>

\* a response node of the type of the fragment, with a value for every field
ResponseNode(frag) ==
  Obj(<<TypenameKey>> \o [i \in 1..Len(PropertyFields(frag)) |->
                           ResponseKey(PropertyFields(frag)[i])],
      <<Str(frag.on)>> \o [i \in 1..Len(PropertyFields(frag)) |-> Num("1")])

\* the names of the properties of a type that are not disabled
EnabledNames(key) == { p.name : p \in PropsOf(TypeOf(registry, key), FALSE) }

====
